---- MODULE Spec2Model ----
(***************************************************************************)
(* da-admin: the bulk copy / rename coordinator (copyObject), its per-key  *)
(* copy engine (copyFile) and the paginated lister (listCommand), as a     *)
(* state machine over an object store, the DA_JOBS resumption ledger and   *)
(* the collab cache invalidator.                                           *)
(*                                                                         *)
(* Every invocation of copyObject is numbered (1, 2, ...).  An invocation  *)
(* moves from await to await: each action below is the synchronous code    *)
(* that runs between two awaits of src/storage/object/copy.js.             *)
(***************************************************************************)
EXTENDS Integers, Sequences, FiniteSets, Bags, TLC

\* ---------------------------------------------------------------- constants

\* copy.js: const MAX_KEYS = 900 (keys handed to the per-key engine per call)
MAX_KEYS == 900

\* list.js buildInput: MaxKeys: 300 (the page size asked of the store)
MaxKeys == 300

\* ------------------------------------------------------------------- bounds

\* small directories hold 0..MaxSmall children; the store, the caller and the
\* scheduler are unconstrained for them
MaxSmall == 2

\* a batch of at most MaxInterleave keys settles in any order; a larger batch
\* settles in the order its copies were issued
MaxInterleave == 3

\* large directories leave 0..LargeJobs full batches of MAX_KEYS as remainder
LargeJobs == 1

\* what a run on a small directory may see beside the protocol of listing and
\* resuming: list / ledger requests that fail, and calls of any other kind
MaxDetours == 1

\* invocations in one run: the listing call, the resumed calls and the detours
MaxCalls == LargeJobs + MaxDetours + 2

\* getUsers calls in one run
MaxReqs == 2

\* seconds that pass in one run
MaxTicks == 1

\* isAuthorized calls in one run
MaxChecks == 2

\* ------------------------------------------------------------------ strings

Org == "foo"
Origin == "somehost.sometld"
DirKey == "mydir"
FileKey == "mydir/f1.html"
NewDir == "mydir/newdir"
Users == <<"haha@foo.com">>

\* s.endsWith(suffix)
EndsWith(s, suffix) ==
  /\ Len(suffix) <= Len(s)
  /\ SubSeq(s, Len(s) - Len(suffix) + 1, Len(s)) = suffix

\* position of the first occurrence of pat in s at or after i, 0 when none
RECURSIVE IndexFrom(_, _, _)
IndexFrom(s, pat, i) ==
  IF i + Len(pat) - 1 > Len(s) THEN 0
  ELSE IF SubSeq(s, i, i + Len(pat) - 1) = pat THEN i
  ELSE IndexFrom(s, pat, i + 1)

\* the text a replacement string stands for, from its position i on: "$$" is
\* a dollar sign, "$&" the matched text and "$'" the text after the match;
\* every other character stands for itself.  The pattern for the text before
\* the match, a dollar sign and a backquote, is left out: no string of the
\* model holds a backquote.
RECURSIVE GetSubstitution(_, _, _, _)
GetSubstitution(rep, i, matched, after) ==
  IF i > Len(rep) THEN ""
  ELSE LET c == SubSeq(rep, i, i)
           d == IF i < Len(rep) THEN SubSeq(rep, i + 1, i + 1) ELSE "" IN
       IF c = "$" /\ d \in {"$", "&", "'"}
       THEN (CASE d = "$" -> "$"
               [] d = "&" -> matched
               [] d = "'" -> after)
            \o GetSubstitution(rep, i + 2, matched, after)
       ELSE c \o GetSubstitution(rep, i + 1, matched, after)

\* replacement strings known to hold no dollar sign, which stand for
\* themselves: the destinations of the bulk runs are not scanned again and
\* again
Literal == {"mydir/newdir", "mydir", "other/f1.html"}

\* s.replace(pat, rep) with a string pattern: the first occurrence only
Replace(s, pat, rep) ==
  LET i == IndexFrom(s, pat, 1) IN
  IF i = 0 THEN s
  ELSE SubSeq(s, 1, i - 1)
       \o (IF rep \in Literal THEN rep
           ELSE GetSubstitution(rep, 1, pat, SubSeq(s, i + Len(pat), Len(s))))
       \o SubSeq(s, i + Len(pat), Len(s))

\* crypto.randomUUID(): the n-th identifier drawn in the run
Uuid(n) == "uuid" \o ToString(n)

\* JSON.stringify of an array of {email} objects
RECURSIVE JsonUsersFrom(_, _)
JsonUsersFrom(users, i) ==
  IF i > Len(users) THEN ""
  ELSE (IF i > 1 THEN "," ELSE "") \o "{\"email\":\"" \o users[i] \o "\"}"
       \o JsonUsersFrom(users, i + 1)

JsonUsers(users) == "[" \o JsonUsersFrom(users, 1) \o "]"

\* JSON.stringify({ continuationToken })
JsonToken(token) == "{\"continuationToken\":\"" \o token \o "\"}"

\* the n-th child the store holds under DirKey + "/"
ChildKey(n) ==
  DirKey \o "/f" \o ToString(n) \o (IF n % 2 = 1 THEN ".html" ELSE ".json")

\* ---------------------------------------------------------------- the state

VARIABLES
  \* the object store
  children,           \* keys the store lists under DirKey + "/", in store order
  pageLen,            \* keys the store returns per page (at most MaxKeys)
  objects,            \* key -> [body, meta, type] of every object the bucket holds
  faulty,             \* keys whose copy or delete request the store fails
  outages,            \* list / ledger requests that may still fail in this run
  \* the resumption ledger (env.DA_JOBS): token -> remaining keys
  DA_JOBS,
  \* the caller
  operation,          \* what the run's caller does: "copy", "rename" or "delete"
  ncalls,             \* invocations of copyObject so far
  probes,             \* calls outside the list-then-resume protocol still allowed
  listed,             \* the run's first protocol call has been made
  \* one invocation of copyObject, by number
  pc,                 \* the await the invocation is suspended at
  daCtx,
  details,
  sourceKeys,
  remainingKeys,
  continuationToken,
  listToken,          \* ContinuationToken of the list request in flight
  task,               \* one entry per copyFile call of the active batch
  nsettled,           \* copyFile calls of the batch that have settled
  rejected,           \* some copyFile call of the batch threw
  result,             \* what copyObject returned: status 0 until it returns
  \* what the run did, for the properties
  uuids,              \* crypto.randomUUID() calls so far
  clock,              \* Date.now()
  fan,                \* per invocation, uuids and Date.now() at its fan-out
  resent,             \* the copy commands sent again after a 412
  listRequests,       \* list requests sent to the store
  ledgerCalls,        \* calls of DA_JOBS.get / put / delete
  collab,             \* bag of notifications sent to the cache invalidator
  storeCalls,         \* getObject / putObjectWithVersion calls
  overwrites,         \* writes that replaced an object already in the bucket
  \* utils/auth.js
  DA_AUTH,            \* env.DA_AUTH, the session cache: user id -> value stored
  DA_CONFIG,          \* env.DA_CONFIG: org -> the org's config sheet(s)
  seconds,            \* the time in seconds: Math.floor(Date.now() / 1000)
  nreqs,              \* getUsers calls so far
  authHeader,         \* per getUsers call, req.headers.get('authorization')
  parse,              \* per getUsers call, one parseUser call per header entry
  users,              \* per getUsers call, the array it resolved with
  authCalls,          \* DA_AUTH.get / put calls and identity-service requests
  authorized,         \* the last isAuthorized call: its arguments and result
  \* copyFile on its own
  built               \* the CopyObjectCommand inputs built for sourceKeys[1]

storeVars == <<children, pageLen, objects, faulty, outages>>
callerVars == <<operation, ncalls, probes, listed>>
callVars == <<pc, daCtx, details, sourceKeys, remainingKeys, continuationToken,
              listToken, task, nsettled, rejected, result>>
logVars == <<uuids, clock, fan, resent, listRequests,
             ledgerCalls, collab, storeCalls, overwrites>>
copyVars == <<storeVars, DA_JOBS, callerVars, callVars, logVars>>
authVars == <<DA_AUTH, DA_CONFIG, seconds, nreqs, authHeader, parse, users,
              authCalls, authorized>>
vars == <<copyVars, authVars, built>>

Calls == 1..MaxCalls

\* an absent string (undefined): the code only tests such values for truthiness
None == ""

\* the isRename argument of copyObject
isRename == operation = "rename"

\* ------------------------------------------------------------- the bucket

PropsKey == DirKey \o ".props"

\* the metadata an object of the bucket carries before the run touches it
OriginalMeta(key) ==
  [ID |-> "id:" \o key, Version |-> "v:" \o key, Timestamp |-> "0",
   Users |-> "[]", Path |-> key]

\* the content type the store keeps with an object
ContentTypeOf(key) ==
  IF EndsWith(key, ".html") THEN "text/html" ELSE "application/json"

OriginalObject(key) ==
  [body |-> "body:" \o key, meta |-> OriginalMeta(key), type |-> ContentTypeOf(key)]

\* a directory of n children
Listing(n) == [k \in 1..n |-> ChildKey(k)]

\* a key of a sibling directory whose name starts with DirKey
SiblingKey == DirKey \o "2/f1.html"

\* s.startsWith(prefix)
StartsWith(s, prefix) ==
  /\ Len(prefix) <= Len(s)
  /\ SubSeq(s, 1, Len(prefix)) = prefix

Bucket(keys) == [k \in keys |-> OriginalObject(k)]

\* children of a large directory: one page of MaxKeys, then jobs full batches,
\* then extra keys
LargeCount(jobs, extra) == MaxKeys + jobs * MAX_KEYS + extra

\* ------------------------------------------------------- copyFile, its input

\* const Key = sourceKey.replace(details.source, details.destination)
DestKey(sourceKey, det) == Replace(sourceKey, det.source, det.destination)

\* the metadata were a single UUID drawn for both ID and Version
MetadataOneUuid(ctx, Key, u, now) ==
  [ID |-> Uuid(u + 1), Version |-> Uuid(u + 1), Timestamp |-> ToString(now),
   Users |-> JsonUsers(ctx.users), Path |-> Key]

\* input.Metadata of a copy: two crypto.randomUUID() draws, Date.now() as a
\* string, the users as JSON and the destination key
Metadata(ctx, Key, u, now) ==
  [ID |-> Uuid(u + 1), Version |-> Uuid(u + 2), Timestamp |-> ToString(now),
   Users |-> JsonUsers(ctx.users), Path |-> Key]

\* the CopyObjectCommand input copyFile builds; u is the number of UUIDs drawn
\* before the call, now is Date.now().  Metadata is <<>> when the property is
\* not set.
CopyInput(ctx, sourceKey, det, rename, u, now) ==
  LET Key == DestKey(sourceKey, det) IN
  [Bucket |-> ctx.org \o "-content",
   Key |-> Key,
   CopySource |-> ctx.org \o "-content/" \o sourceKey,
   Metadata |-> IF rename THEN <<>> ELSE <<Metadata(ctx, Key, u, now)>>,
   MetadataDirective |-> IF rename THEN None ELSE "REPLACE"]

\* the header ifNoneMatchMiddleware sets on every request of the first client
IfNoneMatchHeader == [name |-> "cf-copy-destination-if-none-match", value |-> "*"]

\* the first request were the client built without the middleware
FirstCopyUnconditional(ctx, sourceKey, det, rename, u, now) ==
  [input |-> CopyInput(ctx, sourceKey, det, rename, u, now), headers |-> {}]

\* the first request of copyFile: the input, sent through the client that
\* carries the middleware
FirstCopy(ctx, sourceKey, det, rename, u, now) ==
  [input |-> CopyInput(ctx, sourceKey, det, rename, u, now),
   headers |-> {IfNoneMatchHeader}]

\* the second request were it sent through the first client
SecondCopyConditional(first) == first

\* the request of the rename branch after a 412: the same input on a new
\* client, which has no middleware
SecondCopy(first) == [input |-> first.input, headers |-> {}]

\* `${daCtx.origin}/source/${daCtx.org}/${Key}`
DocUrl(ctx, Key) == ctx.origin \o "/source/" \o ctx.org \o "/" \o Key

\* ------------------------------------------------------- the store's answers

\* the key a CopySource names
SourceOf(cmd) ==
  SubSeq(cmd.input.CopySource, Len(cmd.input.Bucket) + 2, Len(cmd.input.CopySource))

\* the status the store answers a copy request with, the bucket holding objs
CopyStatus(cmd, objs) ==
  IF SourceOf(cmd) \in faulty THEN 500
  ELSE IF SourceOf(cmd) \notin DOMAIN objs THEN 404
  ELSE IF IfNoneMatchHeader \in cmd.headers /\ cmd.input.Key \in DOMAIN objs THEN 412
  ELSE 200

\* the object a successful copy leaves at the destination
Copied(cmd, objs) ==
  [body |-> objs[SourceOf(cmd)].body,
   meta |-> IF cmd.input.MetadataDirective = "REPLACE"
            THEN cmd.input.Metadata[1]
            ELSE objs[SourceOf(cmd)].meta,
   type |-> objs[SourceOf(cmd)].type]

\* the bucket objs after key is written
Written(objs, key, obj) == (key :> obj) @@ objs

\* the store's cursor for the listing position offset (None: from the start)
Cursor(offset) == IF offset = 0 THEN None ELSE "page-" \o ToString(offset)

\* a cursor names a position when the store can have issued it
KnownCursor(token) == \E o \in 0..Len(children) : Cursor(o) = token

OffsetOf(token) == CHOOSE o \in 0..Len(children) : Cursor(o) = token

\* the keys copies into NewDir may come to have, which lie under DirKey + "/"
\* as well: the copies of the directory key, of its sidecar and of the children.
\* A large directory is listed before anything is written (nothing fails and the
\* caller keeps to list-then-resume), and its copies are left out.
Nested ==
  IF Len(children) > MaxSmall + 1 THEN <<>>
  ELSE SelectSeq(<<NewDir, NewDir \o ".props">>
                   \o [k \in 1..Len(children) |-> Replace(children[k], DirKey, NewDir)],
                 LAMBDA key : \A c \in 1..Len(children) : children[c] # key)

\* the keys the store lists, in its order: the children of DirKey, the keys
\* under NewDir that are no children yet, then the sibling directory's key
Listable == Append(children \o Nested, SiblingKey)

\* one page of the listing: the first size keys after offset that start with
\* prefix and that the bucket still holds, and the position of the last of them
\* when more follow
Page(prefix, offset, size) ==
  LET live == SelectSeq([k \in 1..(Len(Listable) - offset) |-> offset + k],
                        LAMBDA k : /\ Listable[k] \in DOMAIN objects
                                   /\ StartsWith(Listable[k], prefix))
      n == IF Len(live) < size THEN Len(live) ELSE size IN
  [Contents |-> [k \in 1..n |-> Listable[live[k]]],
   next |-> IF Len(live) > n THEN live[n] ELSE 0]

\* the store's answer to a ListObjectsV2 request: no more than MaxKeys keys of
\* the prefix, and NextContinuationToken (None when there is no further page)
StoreList(req) ==
  LET size == IF pageLen < req.MaxKeys THEN pageLen ELSE req.MaxKeys
      page == Page(req.Prefix, OffsetOf(req.ContinuationToken), size) IN
  [Contents |-> page.Contents, NextContinuationToken |-> Cursor(page.next)]

\* the bucket objs without key
Removed(objs, key) ==
  LET rest == [k \in DOMAIN objs \ {key} |-> objs[k]] IN
  \* the comparison has the function enumerated before it is used again
  IF rest = rest THEN rest ELSE objs

\* ------------------------------------------------------------- listCommand

\* the prefix were it the key without the trailing slash
BuildInputBarePrefix(org, key) ==
  [Bucket |-> org \o "-content", Prefix |-> key, MaxKeys |-> MaxKeys]

\* buildInput(org, key)
buildInput(org, key) ==
  [Bucket |-> org \o "-content", Prefix |-> key \o "/", MaxKeys |-> MaxKeys]

\* the input were it built without the token
ListInputFromStart(ctx, token) ==
  [Bucket |-> buildInput(ctx.org, ctx.key).Bucket,
   Prefix |-> buildInput(ctx.org, ctx.key).Prefix,
   MaxKeys |-> buildInput(ctx.org, ctx.key).MaxKeys,
   ContinuationToken |-> None]

\* the ListObjectsV2Command input: { ...input, ContinuationToken }
ListInput(ctx, token) ==
  [Bucket |-> buildInput(ctx.org, ctx.key).Bucket,
   Prefix |-> buildInput(ctx.org, ctx.key).Prefix,
   MaxKeys |-> buildInput(ctx.org, ctx.key).MaxKeys,
   ContinuationToken |-> token]

\* the seeding were it done on every page
SeededOnEveryPage(ctx, token) == <<ctx.key, ctx.key \o ".props">>

\* the keys listCommand seeds the page with: none on a later page
Seeded(ctx, token) ==
  IF token = None THEN <<ctx.key, ctx.key \o ".props">> ELSE <<>>

\* the early return were it taken only when no token is supplied
ListsNothingUntokened(ctx, token) == ctx.ext # None /\ token = None

\* if (daCtx.ext): the item has an extension and no list command is used,
\* whatever details.continuationToken is
ListsNothing(ctx, token) == ctx.ext # None

\* return { sourceKeys: [daCtx.key] }
FileListing(ctx) == [sourceKeys |-> <<ctx.key>>, continuationToken |-> None]

\* listCommand were it to hand back the token it was given
listCommandOwnToken(ctx, token, resp) ==
  [sourceKeys |-> Seeded(ctx, token) \o resp.Contents,
   continuationToken |-> token]

\* what listCommand returns for the store's answer resp
listCommand(ctx, token, resp) ==
  [sourceKeys |-> Seeded(ctx, token) \o resp.Contents,
   continuationToken |-> resp.NextContinuationToken]

\* ------------------------------------------------------------ the fan-out

\* a copyFile call for key that has sent its first request, or a deleteObject
\* call for key that waits for its signed URL
NewTask(key) ==
  [key |-> key, pc |-> IF operation = "delete" THEN "sign" ELSE "copy",
   wr |-> None, inv |-> None, out |-> None,
   \* the requests the call has sent, in order; the status its first request
   \* was answered with; what getObject gave it; what it passed to
   \* putObjectWithVersion; the value it returns
   did |-> IF operation = "delete" THEN <<"getSignedUrl">> ELSE <<"copy">>,
   st |-> 0, got |-> <<>>, put |-> <<>>, val |-> None]

\* sourceKeys.map(async (key) => ...): every copyFile (deleteObject) is called
\* in array order and runs up to its first await, the send of the conditional
\* copy (the signing of the delete URL)
FanOut(i, keys, u) ==
  /\ task' = [task EXCEPT ![i] = [j \in 1..Len(keys) |-> NewTask(keys[j])]]
  /\ fan' = [fan EXCEPT ![i] = [u |-> u, now |-> clock]]
  /\ uuids' = IF operation = "copy" THEN u + 2 * Len(keys) ELSE u
  /\ nsettled' = [nsettled EXCEPT ![i] = 0]
  /\ rejected' = [rejected EXCEPT ![i] = FALSE]

\* the keys invocation i passed to copyFile, in call order
CopyFileCalls(i) == [j \in 1..Len(task[i]) |-> task[i][j].key]

\* the first copy request of the j-th copyFile call of invocation i
Sent(i, j) ==
  FirstCopy(daCtx[i], task[i][j].key, details[i], isRename,
            IF isRename THEN fan[i].u ELSE fan[i].u + 2 * (j - 1), fan[i].now)

\* ------------------------------------------------------------------- Init

DirCtx == [org |-> Org, key |-> DirKey, ext |-> None, users |-> Users,
           origin |-> Origin]

FileCtx == [org |-> Org, key |-> FileKey, ext |-> "html", users |-> Users,
            origin |-> Origin]

DirDetails(token) ==
  [source |-> DirKey, destination |-> NewDir, continuationToken |-> token]

NoDetails == [source |-> None, destination |-> None, continuationToken |-> None]

\* the state every invocation starts from
InitCalls ==
  /\ pc = [i \in Calls |-> "idle"]
  /\ daCtx = [i \in Calls |-> DirCtx]
  /\ details = [i \in Calls |-> NoDetails]
  /\ sourceKeys = [i \in Calls |-> <<>>]
  /\ remainingKeys = [i \in Calls |-> <<>>]
  /\ continuationToken = [i \in Calls |-> None]
  /\ listToken = [i \in Calls |-> None]
  /\ task = [i \in Calls |-> <<>>]
  /\ nsettled = [i \in Calls |-> 0]
  /\ rejected = [i \in Calls |-> FALSE]
  /\ result = [i \in Calls |-> [status |-> 0, body |-> <<>>]]

InitLogs ==
  /\ uuids = 0
  /\ clock = 1
  /\ fan = [i \in Calls |-> [u |-> 0, now |-> 0]]
  /\ resent = {}
  /\ listRequests = <<>>
  /\ ledgerCalls = <<>>
  /\ collab = EmptyBag
  /\ storeCalls = {}
  /\ overwrites = {}

\* what may be unusual about a small directory: a synthetic key without an
\* object, a destination that is occupied, a key the store fails, or a sibling
\* directory whose name starts with DirKey
Usual == [absent |-> {}, occupied |-> {}, faulty |-> {}, sibling |-> {}]

Scenarios ==
  {Usual}
  \cup {[Usual EXCEPT !.absent = a] : a \in {{DirKey}, {DirKey, PropsKey}}}
  \cup {[Usual EXCEPT !.occupied = {DestKey(k, DirDetails(None))}] :
          k \in {PropsKey, ChildKey(1)}}
  \cup {[Usual EXCEPT !.faulty = {ChildKey(k)}] : k \in 1..2}
  \cup {[Usual EXCEPT !.sibling = {SiblingKey}]}

\* the keys of a set of at most one key, as a sequence
AsSeq(keys) == IF keys = {} THEN <<>> ELSE <<CHOOSE k \in keys : TRUE>>

\* a small directory: the store pages it as it likes.  An occupied destination
\* lies under DirKey + "/" and is one of the children the store lists.
InitSmall ==
  /\ pageLen \in {1, MaxKeys}
  /\ \E s \in Scenarios :
       /\ operation = "delete" => s.occupied = {}
       /\ \E n \in 0..(MaxSmall - Cardinality(s.occupied)) :
            children = Listing(n) \o AsSeq(s.occupied)
       /\ objects = Bucket((({DirKey, PropsKey} \ s.absent)
                            \cup {children[k] : k \in 1..Len(children)})
                           \cup s.sibling)
       /\ faulty = s.faulty
  /\ \E o \in 0..MaxDetours : outages = o /\ probes = MaxDetours - o

\* a large directory, copied or deleted: a full page and a number of full
\* batches of children, and none or one beyond them.  The store holds no object
\* for the directory key itself, pages are full, nothing fails, and the caller
\* keeps to list-then-resume.
InitLarge ==
  /\ operation # "rename"
  /\ \E jobs \in 0..LargeJobs, extra \in {0, 1} :
       /\ operation = "delete" => jobs = 0
       /\ children = Listing(LargeCount(jobs, extra))
  /\ pageLen = MaxKeys
  /\ objects = Bucket({PropsKey} \cup {children[k] : k \in 1..Len(children)})
  /\ faulty = {}
  /\ outages = 0
  /\ probes = 0

\* getUsers calls in one run, by number
Reqs == 1..MaxReqs

\* no request has reached utils/auth.js
AuthIdle ==
  /\ DA_AUTH = <<>>
  /\ seconds = 0
  /\ nreqs = 0
  /\ authHeader = [r \in Reqs |-> None]
  /\ parse = [r \in Reqs |-> <<>>]
  /\ users = [r \in Reqs |-> <<>>]
  /\ authCalls = {}
  /\ authorized = <<>>
  /\ built = <<>>

Init ==
  /\ operation \in {"copy", "rename", "delete"}
  /\ InitSmall \/ InitLarge
  /\ DA_JOBS = <<>>
  /\ ncalls = 0
  /\ listed = FALSE
  /\ InitCalls
  /\ InitLogs
  /\ AuthIdle
  /\ DA_CONFIG = <<>>

\* ------------------------------------------------- the coordinators' outcomes

\* the four outcomes; body is <<>> when the response has no body property
Complete == [status |-> 204, body |-> <<>>]
Partial(token) == [status |-> 206, body |-> <<JsonToken(token)>>]
Conflict == [status |-> 409, body |-> <<"">>]
NotFound == [status |-> 404, body |-> <<"">>]

\* the coordinator returns r
Return(i, r) ==
  /\ result' = [result EXCEPT ![i] = r]
  /\ pc' = [pc EXCEPT ![i] = "returned"]

\* the catch block were it to report the error it caught
CaughtReported(i) == Return(i, [status |-> 500, body |-> <<"InternalError">>])

\* catch (e) { return { body: '', status: 404 } }, of either coordinator
Caught(i) == Return(i, NotFound)

\* the tokens earlier invocations returned to the caller
ReturnedTokens == {continuationToken[k] : k \in {c \in Calls : result[c].status = 206}}

\* a token no invocation ever generated
BogusToken == "copy-mydir-mydir/newdir-bogus"

FileDest == "other/f1.html"

DeleteDetails(token) ==
  [source |-> None, destination |-> None, continuationToken |-> token]

\* the calls the caller may make: copyObject calls in a copy or rename run,
\* deleteObjects calls in a delete run
Requests ==
  IF operation = "delete"
  THEN {[ctx |-> DirCtx, det |-> DeleteDetails(t)] :
          t \in {None, BogusToken} \cup ReturnedTokens}
       \cup {[ctx |-> FileCtx, det |-> DeleteDetails(t)] :
               t \in {None, BogusToken} \cup ReturnedTokens}
  ELSE {[ctx |-> DirCtx, det |-> DirDetails(t)] :
          t \in {None, BogusToken} \cup ReturnedTokens}
       \cup {[ctx |-> DirCtx,
              det |-> [source |-> DirKey, destination |-> DirKey,
                       continuationToken |-> t]] :
             t \in {None} \cup ReturnedTokens}
       \cup {[ctx |-> FileCtx,
              det |-> [source |-> FileKey, destination |-> FileDest,
                       continuationToken |-> None]]}

\* a call that lists the directory from its start
IsListing(req) ==
  /\ req.ctx.ext = None
  /\ req.det.source # req.det.destination \/ operation = "delete"
  /\ req.det.continuationToken = None

\* a call that resumes: a copy job the ledger holds, or the deletion from the
\* cursor the previous call returned
IsResume(req) ==
  /\ req.ctx.ext = None
  /\ IF operation = "delete"
     THEN /\ ncalls > 0
          /\ result[ncalls].status = 206
          /\ req.det.continuationToken = continuationToken[ncalls]
     ELSE /\ req.det.source # req.det.destination
          /\ req.det.continuationToken \in DOMAIN DA_JOBS

\* the same-location test were it made on the listing branch only
SameLocationListed(det) ==
  det.source = det.destination /\ det.continuationToken = None

\* details.source === details.destination
SameLocation(det) == det.source = det.destination

\* copyObject(env, daCtx, details, isRename) up to its first await
copyObject(i, ctx, det) ==
  IF SameLocation(det)
  THEN /\ Return(i, Conflict)
       /\ UNCHANGED <<sourceKeys, remainingKeys, continuationToken, listToken,
                      task, nsettled, rejected, uuids, fan,
                      listRequests, ledgerCalls>>
  ELSE IF det.continuationToken # None
  THEN /\ continuationToken' = [continuationToken EXCEPT ![i] = det.continuationToken]
       /\ ledgerCalls' = Append(ledgerCalls,
                                [call |-> i, op |-> "get", key |-> det.continuationToken])
       /\ pc' = [pc EXCEPT ![i] = "jobsGet"]
       /\ UNCHANGED <<sourceKeys, remainingKeys, listToken, task, nsettled,
                      rejected, result, uuids, fan, listRequests>>
  ELSE IF ListsNothing(ctx, det.continuationToken)
  THEN \* listCommand: no list request for a key with an extension
       /\ sourceKeys' = [sourceKeys EXCEPT ![i] = FileListing(ctx).sourceKeys]
       /\ FanOut(i, FileListing(ctx).sourceKeys, uuids)
       /\ pc' = [pc EXCEPT ![i] = "join"]
       /\ UNCHANGED <<remainingKeys, continuationToken, listToken, result,
                      listRequests, ledgerCalls>>
  ELSE /\ listRequests' = Append(listRequests,
                                 [call |-> i, input |-> ListInput(ctx, None)])
       /\ listToken' = [listToken EXCEPT ![i] = None]
       /\ pc' = [pc EXCEPT ![i] = "list"]
       /\ UNCHANGED <<sourceKeys, remainingKeys, continuationToken, task,
                      nsettled, rejected, result, uuids, fan, ledgerCalls>>

\* deleteObjects(env, daCtx, details) up to its first await
deleteObjects(i, ctx, det) ==
  IF ListsNothing(ctx, det.continuationToken)
  THEN \* listCommand: no list request for a key with an extension
       /\ sourceKeys' = [sourceKeys EXCEPT ![i] = FileListing(ctx).sourceKeys]
       /\ continuationToken' =
            [continuationToken EXCEPT ![i] = FileListing(ctx).continuationToken]
       /\ FanOut(i, FileListing(ctx).sourceKeys, uuids)
       /\ pc' = [pc EXCEPT ![i] = "join"]
       /\ UNCHANGED <<remainingKeys, listToken, result, listRequests, ledgerCalls>>
  ELSE /\ listRequests' =
            Append(listRequests,
                   [call |-> i, input |-> ListInput(ctx, det.continuationToken)])
       /\ listToken' = [listToken EXCEPT ![i] = det.continuationToken]
       /\ pc' = [pc EXCEPT ![i] = "list"]
       /\ UNCHANGED <<sourceKeys, remainingKeys, continuationToken, task,
                      nsettled, rejected, result, uuids, fan, ledgerCalls>>

\* the calls of a run: on a small directory the listing call, a resumed call
\* and the detours; on a large one as many as the protocol takes
CallLimit == IF Len(children) <= MaxSmall THEN MaxDetours + 2 ELSE MaxCalls

\* the caller makes its next call once the previous one has returned
Call(i) ==
  /\ i = ncalls + 1
  /\ i <= CallLimit
  /\ \A k \in 1..ncalls : pc[k] = "returned"
  /\ \E req \in Requests :
       /\ IsListing(req) => ~listed
       /\ ~(IsListing(req) \/ IsResume(req)) => probes > 0
       /\ listed' = (listed \/ IsListing(req))
       /\ probes' = IF IsListing(req) \/ IsResume(req) THEN probes ELSE probes - 1
       /\ daCtx' = [daCtx EXCEPT ![i] = req.ctx]
       /\ details' = [details EXCEPT ![i] = req.det]
       /\ IF operation = "delete"
          THEN deleteObjects(i, req.ctx, req.det)
          ELSE copyObject(i, req.ctx, req.det)
  /\ ncalls' = i
  /\ clock' = clock + 1
  /\ UNCHANGED <<storeVars, DA_JOBS, operation, resent, collab, storeCalls, overwrites>>
  /\ UNCHANGED <<authVars, built>>

\* the job token copyObject generates: copy-<source>-<destination>-<uuid>
JobToken(det, u) ==
  "copy-" \o det.source \o "-" \o det.destination \o "-" \o Uuid(u + 1)

\* the job were it created for every listing
JobAlways(resp) == TRUE

\* if (resp.continuationToken): the listing goes on and a job is needed
JobNeeded(resp) == resp.continuationToken # None

\* the first page were its keys handed to copyFile before the later pages
\* are asked for
ListReturnsCopiesFirst(i) ==
  /\ operation # "delete"
  /\ pc[i] = "list"
  /\ LET resp == listCommand(daCtx[i], listToken[i],
                             StoreList(ListInput(daCtx[i], listToken[i]))) IN
     /\ sourceKeys' = [sourceKeys EXCEPT ![i] = resp.sourceKeys]
     /\ IF JobNeeded(resp)
        THEN /\ continuationToken' =
                  [continuationToken EXCEPT ![i] = JobToken(details[i], uuids)]
             /\ FanOut(i, resp.sourceKeys, uuids + 1)
             /\ listToken' = [listToken EXCEPT ![i] = resp.continuationToken]
             /\ listRequests' =
                  Append(listRequests,
                         [call |-> i,
                          input |-> ListInput(daCtx[i], resp.continuationToken)])
             /\ pc' = [pc EXCEPT ![i] = "drain"]
        ELSE /\ FanOut(i, resp.sourceKeys, uuids)
             /\ pc' = [pc EXCEPT ![i] = "join"]
             /\ UNCHANGED <<continuationToken, listToken, listRequests>>
  /\ UNCHANGED <<storeVars, DA_JOBS, callerVars, daCtx, details, remainingKeys,
                 result, clock, resent, ledgerCalls, collab, storeCalls, overwrites>>
  /\ UNCHANGED <<authVars, built>>

\* the first page arrives: let resp = await listCommand(daCtx, details, client)
ListReturns(i) ==
  /\ operation # "delete"
  /\ pc[i] = "list"
  /\ LET resp == listCommand(daCtx[i], listToken[i],
                             StoreList(ListInput(daCtx[i], listToken[i]))) IN
     /\ sourceKeys' = [sourceKeys EXCEPT ![i] = resp.sourceKeys]
     /\ IF JobNeeded(resp)
        THEN \* a job token is drawn and the next page is asked for
             /\ continuationToken' =
                  [continuationToken EXCEPT ![i] = JobToken(details[i], uuids)]
             /\ uuids' = uuids + 1
             /\ listToken' = [listToken EXCEPT ![i] = resp.continuationToken]
             /\ listRequests' =
                  Append(listRequests,
                         [call |-> i,
                          input |-> ListInput(daCtx[i], resp.continuationToken)])
             /\ pc' = [pc EXCEPT ![i] = "drain"]
             /\ UNCHANGED <<task, nsettled, rejected, fan>>
        ELSE /\ FanOut(i, resp.sourceKeys, uuids)
             /\ pc' = [pc EXCEPT ![i] = "join"]
             /\ UNCHANGED <<continuationToken, listToken, listRequests>>
  /\ UNCHANGED <<storeVars, DA_JOBS, callerVars, daCtx, details, remainingKeys,
                 result, clock, resent, ledgerCalls, collab, storeCalls, overwrites>>
  /\ UNCHANGED <<authVars, built>>

\* the page's keys were they left out of the remainder
PushedNothing(keys, page) == keys

\* the page's keys were they put in front of the remainder
Unshifted(keys, page) == page \o keys

\* remainingKeys.push(...resp.sourceKeys)
Pushed(keys, page) == keys \o page

\* a later page arrives inside while (resp.continuationToken)
DrainReturns(i) ==
  /\ pc[i] = "drain"
  /\ LET resp == listCommand(daCtx[i], listToken[i],
                             StoreList(ListInput(daCtx[i], listToken[i]))) IN
     /\ remainingKeys' = [remainingKeys EXCEPT ![i] = Pushed(@, resp.sourceKeys)]
     /\ IF resp.continuationToken # None
        THEN /\ listToken' = [listToken EXCEPT ![i] = resp.continuationToken]
             /\ listRequests' =
                  Append(listRequests,
                         [call |-> i,
                          input |-> ListInput(daCtx[i], resp.continuationToken)])
             /\ UNCHANGED <<pc, task, nsettled, rejected, uuids, fan>>
        ELSE /\ FanOut(i, sourceKeys[i], uuids)
             /\ pc' = [pc EXCEPT ![i] = "join"]
             /\ UNCHANGED <<listToken, listRequests>>
  /\ UNCHANGED <<storeVars, DA_JOBS, callerVars, daCtx, details, sourceKeys,
                 continuationToken, result, clock, resent, ledgerCalls, collab,
                 storeCalls, overwrites>>
  /\ UNCHANGED <<authVars, built>>

\* the batch were it cut with no ceiling
SplicedAll(s, n) == s

\* the first n elements of s: what splice(0, n) returns
Spliced(s, n) == SubSeq(s, 1, IF Len(s) < n THEN Len(s) ELSE n)

\* the remainder were it cut one key early
RestKeepsLast(s, n) == SubSeq(s, IF Len(s) < n THEN Len(s) ELSE n, Len(s))

\* the remainder were the array sliced, not spliced
Unspliced(s, n) == s

\* the elements of s after the first n: what splice(0, n) leaves in the array
Rest(s, n) == SubSeq(s, (IF Len(s) < n THEN Len(s) ELSE n) + 1, Len(s))

\* the ledger were it to answer an empty array for a token it does not hold
JobsGetReturnsEmpty(i) ==
  /\ pc[i] = "jobsGet"
  /\ LET stored == IF continuationToken[i] \in DOMAIN DA_JOBS
                   THEN DA_JOBS[continuationToken[i]] ELSE <<>> IN
     /\ sourceKeys' = [sourceKeys EXCEPT ![i] = Spliced(stored, MAX_KEYS)]
     /\ remainingKeys' = [remainingKeys EXCEPT ![i] = Rest(stored, MAX_KEYS)]
     /\ FanOut(i, Spliced(stored, MAX_KEYS), uuids)
     /\ pc' = [pc EXCEPT ![i] = "join"]
  /\ UNCHANGED <<storeVars, DA_JOBS, callerVars, daCtx, details, continuationToken,
                 listToken, result, clock, resent, listRequests, ledgerCalls,
                 collab, storeCalls, overwrites>>
  /\ UNCHANGED <<authVars, built>>

\* remainingKeys = await env.DA_JOBS.get(continuationToken, { type: 'json' })
\* the ledger answers null for a token it does not hold, and null.splice throws
JobsGetReturns(i) ==
  /\ pc[i] = "jobsGet"
  /\ IF continuationToken[i] \in DOMAIN DA_JOBS
     THEN LET stored == DA_JOBS[continuationToken[i]] IN
          /\ sourceKeys' = [sourceKeys EXCEPT ![i] = Spliced(stored, MAX_KEYS)]
          /\ remainingKeys' = [remainingKeys EXCEPT ![i] = Rest(stored, MAX_KEYS)]
          /\ FanOut(i, Spliced(stored, MAX_KEYS), uuids)
          /\ pc' = [pc EXCEPT ![i] = "join"]
          /\ UNCHANGED result
     ELSE /\ Caught(i)
          /\ UNCHANGED <<sourceKeys, remainingKeys, task, nsettled, rejected,
                         uuids, fan>>
  /\ UNCHANGED <<storeVars, DA_JOBS, callerVars, daCtx, details, continuationToken,
                 listToken, clock, resent, listRequests, ledgerCalls, collab,
                 storeCalls, overwrites>>
  /\ UNCHANGED <<authVars, built>>

\* the ledger were the put to store the job under the store's listing cursor
JobsPutUnderCursor(key, value) == ("page-" \o ToString(MaxKeys) :> value) @@ DA_JOBS

\* the ledger with value stored under key, and with key removed
JobsPut(key, value) == (key :> value) @@ DA_JOBS
JobsDelete(key) == [t \in DOMAIN DA_JOBS \ {key} |-> DA_JOBS[t]]

\* await Promise.all(...) resolves: every copyFile call of the batch settled and
\* none threw.  The remainder is put, or the job deleted, or 204 returned.
Join(i) ==
  /\ operation # "delete"
  /\ pc[i] = "join"
  /\ nsettled[i] = Len(task[i])
  /\ ~rejected[i]
  /\ IF Len(remainingKeys[i]) # 0
     THEN /\ ledgerCalls' = Append(ledgerCalls,
                                   [call |-> i, op |-> "put", key |-> continuationToken[i]])
          /\ pc' = [pc EXCEPT ![i] = "jobsPut"]
          /\ UNCHANGED result
     ELSE IF continuationToken[i] # None
     THEN /\ ledgerCalls' = Append(ledgerCalls,
                                   [call |-> i, op |-> "delete", key |-> continuationToken[i]])
          /\ pc' = [pc EXCEPT ![i] = "jobsDelete"]
          /\ UNCHANGED result
     ELSE /\ Return(i, Complete)
          /\ UNCHANGED ledgerCalls
  /\ UNCHANGED <<storeVars, DA_JOBS, callerVars, daCtx, details, sourceKeys,
                 remainingKeys, continuationToken, listToken, task, nsettled,
                 rejected, uuids, clock, fan, resent, listRequests,
                 collab, storeCalls, overwrites>>
  /\ UNCHANGED <<authVars, built>>

\* await env.DA_JOBS.put(continuationToken, JSON.stringify(remainingKeys))
JobsPutReturns(i) ==
  /\ pc[i] = "jobsPut"
  /\ DA_JOBS' = JobsPut(continuationToken[i], remainingKeys[i])
  /\ Return(i, Partial(continuationToken[i]))
  /\ UNCHANGED <<storeVars, callerVars, daCtx, details, sourceKeys, remainingKeys,
                 continuationToken, listToken, task, nsettled, rejected, logVars>>
  /\ UNCHANGED <<authVars, built>>

\* await env.DA_JOBS.delete(continuationToken)
JobsDeleteReturns(i) ==
  /\ pc[i] = "jobsDelete"
  /\ DA_JOBS' = JobsDelete(continuationToken[i])
  /\ Return(i, Complete)
  /\ UNCHANGED <<storeVars, callerVars, daCtx, details, sourceKeys, remainingKeys,
                 continuationToken, listToken, task, nsettled, rejected, logVars>>
  /\ UNCHANGED <<authVars, built>>

\* await Promise.all(...) rejects as soon as one copyFile call has thrown
JoinRejects(i) ==
  /\ pc[i] = "join"
  /\ rejected[i]
  /\ Caught(i)
  /\ UNCHANGED <<storeVars, DA_JOBS, callerVars, daCtx, details, sourceKeys,
                 remainingKeys, continuationToken, listToken, task, nsettled,
                 rejected, logVars>>
  /\ UNCHANGED <<authVars, built>>

\* the page arrives: const { sourceKeys, continuationToken } = await
\* listCommand(daCtx, details, client).  The store refuses a ContinuationToken
\* it did not issue, and the rejection lands in the catch block.
DeleteListReturns(i) ==
  /\ operation = "delete"
  /\ pc[i] = "list"
  /\ IF KnownCursor(listToken[i])
     THEN LET resp == listCommand(daCtx[i], listToken[i],
                                  StoreList(ListInput(daCtx[i], listToken[i]))) IN
          /\ sourceKeys' = [sourceKeys EXCEPT ![i] = resp.sourceKeys]
          /\ continuationToken' =
               [continuationToken EXCEPT ![i] = resp.continuationToken]
          /\ FanOut(i, resp.sourceKeys, uuids)
          /\ pc' = [pc EXCEPT ![i] = "join"]
          /\ UNCHANGED result
     ELSE /\ Caught(i)
          /\ UNCHANGED <<sourceKeys, continuationToken, task, nsettled, rejected,
                         uuids, fan>>
  /\ UNCHANGED <<storeVars, DA_JOBS, callerVars, daCtx, details, remainingKeys,
                 listToken, clock, resent, listRequests, ledgerCalls, collab,
                 storeCalls, overwrites>>
  /\ UNCHANGED <<authVars, built>>

\* await Promise.all(...) resolves in deleteObjects: every deleteObject call
\* settled.  206 with the store's cursor when the page was not the last one.
DeleteJoin(i) ==
  /\ operation = "delete"
  /\ pc[i] = "join"
  /\ nsettled[i] = Len(task[i])
  /\ ~rejected[i]
  /\ Return(i, IF continuationToken[i] # None
               THEN Partial(continuationToken[i]) ELSE Complete)
  /\ UNCHANGED <<storeVars, DA_JOBS, callerVars, daCtx, details, sourceKeys,
                 remainingKeys, continuationToken, listToken, task, nsettled,
                 rejected, logVars>>
  /\ UNCHANGED <<authVars, built>>

\* a ledger put were it to store its value and report failure all the same
RequestFailsAfterWrite(i) ==
  /\ pc[i] \in {"list", "drain", "jobsGet", "jobsPut", "jobsDelete"}
  /\ outages > 0
  /\ outages' = outages - 1
  /\ storeCalls' = storeCalls \cup {[call |-> i, op |-> "outage", key |-> pc[i]]}
  /\ Caught(i)
  /\ DA_JOBS' = IF pc[i] = "jobsPut"
                THEN JobsPut(continuationToken[i], remainingKeys[i])
                ELSE DA_JOBS
  /\ UNCHANGED <<children, pageLen, objects, faulty, callerVars, daCtx,
                 details, sourceKeys, remainingKeys, continuationToken, listToken,
                 task, nsettled, rejected, uuids, clock, fan, resent, listRequests,
                 ledgerCalls, collab, overwrites>>
  /\ UNCHANGED <<authVars, built>>

\* a list request or a ledger call fails (store or ledger unreachable)
RequestFails(i) ==
  /\ pc[i] \in {"list", "drain", "jobsGet", "jobsPut", "jobsDelete"}
  /\ outages > 0
  /\ outages' = outages - 1
  /\ storeCalls' = storeCalls \cup {[call |-> i, op |-> "outage", key |-> pc[i]]}
  /\ Caught(i)
  /\ UNCHANGED <<children, pageLen, objects, faulty, DA_JOBS, callerVars, daCtx,
                 details, sourceKeys, remainingKeys, continuationToken, listToken,
                 task, nsettled, rejected, uuids, clock, fan, resent, listRequests,
                 ledgerCalls, collab, overwrites>>
  /\ UNCHANGED <<authVars, built>>

\* --------------------------------------------------------------- copyFile

\* what a copyFile or deleteObject call of invocation i reads and changes: the
\* bucket, the logs and the calls of its batch
World(i) ==
  [objects |-> objects, overwrites |-> overwrites, resent |-> resent,
   storeCalls |-> storeCalls, collab |-> collab,
   task |-> task[i], nsettled |-> nsettled[i], rejected |-> rejected[i]]

Commit(i, w) ==
  /\ objects' = w.objects
  /\ overwrites' = w.overwrites
  /\ resent' = w.resent
  /\ storeCalls' = w.storeCalls
  /\ collab' = w.collab
  /\ task' = [task EXCEPT ![i] = w.task]
  /\ nsettled' = [nsettled EXCEPT ![i] = w.nsettled]
  /\ rejected' = [rejected EXCEPT ![i] = w.rejected]

\* the write of the catch block is still in flight
Writing(t) == t.wr \in {"put", "copy"}

\* copyFile settles once the finally block's notification and the promise it
\* returned have both completed
Progress(t) ==
  [t EXCEPT !.pc = IF Writing(t) \/ t.inv = "pending" THEN "finally" ELSE "settled"]

SetTask(w, j, t) ==
  [w EXCEPT !.task[j] = t,
            !.nsettled = IF t.pc = "settled" THEN @ + 1 ELSE @,
            !.rejected = @ \/ (t.pc = "settled" /\ t.out = "throw")]

\* the call of the batch w.task[j] has sent the request named op
Did(w, j, op) == [w EXCEPT !.task[j].did = Append(@, op)]

\* the notification were it sent from the end of the try block and from the
\* returns of the catch block, not from a finally block
NotifiedUnlessThrown(Key, out) == EndsWith(Key, ".html") /\ out # "throw"

\* if (Key.endsWith('.html')), in the finally block: whatever the outcome out
Notified(Key, out) == EndsWith(Key, ".html")

\* finally { if (Key.endsWith('.html')) await invalidateCollab('syncAdmin', ...) }
\* entered with the outcome out of the try / catch, the value val it returns
\* and the write wr it started
Finally(w, i, j, out, wr, val) ==
  LET Key == Sent(i, j).input.Key
      html == Notified(Key, out)
      told == IF html
              THEN [Did(w, j, "syncAdmin") EXCEPT !.collab =
                      @ (+) SetToBag({[call |-> i, kind |-> "syncAdmin",
                                       url |-> DocUrl(daCtx[i], Key)]})]
              ELSE w IN
  SetTask(told, j, Progress([told.task[j] EXCEPT
                               !.pc = "finally", !.wr = wr, !.out = out,
                               !.val = val,
                               !.inv = IF html THEN "pending" ELSE None]))

\* a write to key: recorded when it replaces an object the bucket holds
Write(w, i, key, obj, by) ==
  [w EXCEPT !.objects = Written(@, key, obj),
            !.overwrites = IF key \in DOMAIN w.objects
                           THEN @ \cup {[call |-> i, key |-> key, by |-> by]}
                           ELSE @]

\* the catch block were it to rethrow a 404 as well
RethrownWithNotFound(status) == status # 412

\* the catch block were it to pass every error on as a result
RethrownNever(status) == FALSE

\* the errors the catch block throws again: neither 412 nor 404
Rethrown(status) == status # 412 /\ status # 404

\* the store answers the conditional copy: const resp = await client.send(...)
\* and the catch block, up to its await or its return
CopyReturned(w, i, j) ==
  LET cmd == Sent(i, j)
      status == CopyStatus(cmd, w.objects)
      v == [w EXCEPT !.task[j].st = status] IN
  IF status = 200
  THEN \* return resp
       Finally(Write(v, i, cmd.input.Key, Copied(cmd, v.objects), "copy"),
               i, j, "ok", None, "resp")
  ELSE IF status = 412 /\ ~isRename
  THEN \* const original = await getObject(env, { org, key: sourceKey })
       SetTask([Did(v, j, "getObject") EXCEPT !.storeCalls =
                  @ \cup {[call |-> i, op |-> "getObject", key |-> SourceOf(cmd)]}],
               j, [Did(v, j, "getObject").task[j] EXCEPT !.pc = "get"])
  ELSE IF status = 412
  THEN \* return client.send(new CopyObjectCommand(input)) on a new client
       Finally([Did(v, j, "copy") EXCEPT
                  !.resent = @ \cup {[call |-> i, cmd |-> SecondCopy(cmd)]}],
               i, j, "ok", "copy", "send")
  ELSE IF ~Rethrown(status)
  THEN \* return { $metadata: e.$metadata }
       Finally(v, i, j, "ok", None, "$metadata")
  ELSE \* throw e
       Finally(v, i, j, "throw", None, "e")

\* getObject(env, { org, key }): the object's body, its length and its type
getObject(objs, key) ==
  [body |-> objs[key].body, contentLength |-> Len(objs[key].body),
   contentType |-> objs[key].type]

\* the update were the content type left out of it
UpdateUntyped(ctx, Key, original) ==
  [org |-> ctx.org, key |-> Key, body |-> original.body,
   contentLength |-> original.contentLength, type |-> None]

\* the update copyFile passes to putObjectWithVersion
Update(ctx, Key, original) ==
  [org |-> ctx.org, key |-> Key, body |-> original.body,
   contentLength |-> original.contentLength, type |-> original.contentType]

\* getObject returns the source: return putObjectWithVersion(env, daCtx, {...})
GotObject(w, i, j) ==
  LET cmd == Sent(i, j)
      original == getObject(w.objects, SourceOf(cmd))
      update == Update(daCtx[i], cmd.input.Key, original)
      read == [Did(w, j, "putObjectWithVersion") EXCEPT
                 !.task[j].got = <<original>>, !.task[j].put = <<update>>] IN
  Finally([read EXCEPT !.storeCalls =
             @ \cup {[call |-> i, op |-> "putObjectWithVersion",
                      key |-> cmd.input.Key]}],
          i, j, "ok", "put", "putObjectWithVersion")

\* putObjectWithVersion: the update's body is stored at its key, whose identity
\* and history stay those of the object already there
PutWithVersion(objs, update) ==
  [body |-> update.body,
   meta |-> IF update.key \in DOMAIN objs
            THEN objs[update.key].meta ELSE OriginalMeta(update.key),
   type |-> update.type]

\* the write started in the catch block completes
WriteReturned(w, i, j) ==
  LET cmd == SecondCopy(Sent(i, j))
      Key == cmd.input.Key IN
  IF w.task[j].wr = "put"
  THEN SetTask(Write(w, i, Key, PutWithVersion(w.objects, w.task[j].put[1]), "put"),
               j, Progress([w.task[j] EXCEPT !.wr = "done"]))
  ELSE IF CopyStatus(cmd, w.objects) = 200
  THEN SetTask(Write(w, i, Key, Copied(cmd, w.objects), "copy"),
               j, Progress([w.task[j] EXCEPT !.wr = "done"]))
  ELSE \* the promise copyFile returned rejects
       SetTask(w, j, Progress([w.task[j] EXCEPT
                                 !.wr = "failed", !.out = "throw", !.val = "e"]))

\* a request of the catch block fails: getObject rejects and the catch block
\* throws, or the promise copyFile returned rejects
FallbackFailed(w, i, j) ==
  IF w.task[j].pc = "get"
  THEN Finally(w, i, j, "throw", None, "e")
  ELSE SetTask(w, j, Progress([w.task[j] EXCEPT
                                 !.wr = "failed", !.out = "throw", !.val = "e"]))

\* await invalidateCollab(...) completes
Invalidated(w, j) == SetTask(w, j, Progress([w.task[j] EXCEPT !.inv = "done"]))

\* what the coordinator and the ledger hold: no per-key step touches it
TaskFrame ==
  UNCHANGED <<children, pageLen, faulty, outages, DA_JOBS, callerVars, pc, daCtx,
              details, sourceKeys, remainingKeys, continuationToken, listToken,
              result, uuids, clock, fan, listRequests, ledgerCalls, authVars,
              built>>

\* ----------------------------------------------------------- deleteObject

\* const url = await getSignedUrl(client, delCommand, { expiresIn: 3600 })
\* resolves and the DELETE request is sent: resp = await fetch(url, ...)
Signed(w, j) ==
  LET sent == Did(w, j, "fetch") IN
  SetTask(sent, j, [sent.task[j] EXCEPT !.pc = "delete"])

\* the catch block were it to throw the error again
DeleteCaughtRethrown(t) == [t EXCEPT !.pc = "settled", !.out = "throw", !.val = "e"]

\* catch (e) { console.log(...); return e }: the call resolves with the error
DeleteCaught(t) == [t EXCEPT !.pc = "settled", !.out = "error", !.val = "e"]

\* getSignedUrl rejects: no DELETE request is sent
SignFailed(w, j) == SetTask(w, j, DeleteCaught(w.task[j]))

\* the notification were it sent for every key deleted
DeleteNotifiedAlways(Key) == TRUE

\* if (Key.endsWith('.html')), after the try / catch of deleteObject
DeleteNotified(Key) == EndsWith(Key, ".html")

\* the DELETE request is answered, or fails and deleteObject returns the error;
\* then if (Key.endsWith('.html')) await invalidateCollab('deleteadmin', ...)
Deleted(w, i, j) ==
  LET Key == w.task[j].key
      html == DeleteNotified(Key)
      asked == [w EXCEPT !.storeCalls =
                  @ \cup {[call |-> i, op |-> "delete", key |-> Key]}] IN
  IF Key \in faulty
  THEN \* catch (e) { ...; return e }
       SetTask(asked, j, DeleteCaught(w.task[j]))
  ELSE LET gone == [asked EXCEPT !.objects = Removed(@, Key)]
           told == IF html
                   THEN [Did(gone, j, "deleteadmin") EXCEPT !.collab =
                           @ (+) SetToBag({[call |-> i, kind |-> "deleteadmin",
                                            url |-> DocUrl(daCtx[i], Key)]})]
                   ELSE gone IN
       SetTask(told, j, Progress([told.task[j] EXCEPT
                                    !.pc = "finally", !.out = "ok", !.val = "resp",
                                    !.inv = IF html THEN "pending" ELSE None]))

\* ------------------------------------------------------ the per-key steps

CopyReturns(i, j) ==
  /\ task[i][j].pc = "copy"
  /\ Commit(i, CopyReturned(World(i), i, j))
  /\ TaskFrame

GetReturns(i, j) ==
  /\ task[i][j].pc = "get"
  /\ Commit(i, GotObject(World(i), i, j))
  /\ TaskFrame

WriteReturns(i, j) ==
  /\ task[i][j].pc = "finally"
  /\ Writing(task[i][j])
  /\ Commit(i, WriteReturned(World(i), i, j))
  /\ TaskFrame

\* the store or the versioned put fails a request of the catch block
FallbackFails(i, j) ==
  /\ task[i][j].pc = "get" \/ (task[i][j].pc = "finally" /\ Writing(task[i][j]))
  /\ outages > 0
  /\ outages' = outages - 1
  /\ Commit(i, FallbackFailed(World(i), i, j))
  /\ UNCHANGED <<children, pageLen, faulty, DA_JOBS, callerVars, pc, daCtx,
                 details, sourceKeys, remainingKeys, continuationToken, listToken,
                 result, uuids, clock, fan, listRequests, ledgerCalls>>
  /\ UNCHANGED <<authVars, built>>

InvalidateReturns(i, j) ==
  /\ task[i][j].pc = "finally"
  /\ task[i][j].inv = "pending"
  /\ Commit(i, Invalidated(World(i), j))
  /\ TaskFrame

SignReturns(i, j) ==
  /\ task[i][j].pc = "sign"
  /\ Commit(i, Signed(World(i), j))
  /\ TaskFrame

\* the signing of the delete URL fails
SignFails(i, j) ==
  /\ task[i][j].pc = "sign"
  /\ outages > 0
  /\ outages' = outages - 1
  /\ Commit(i, SignFailed(World(i), j))
  /\ UNCHANGED <<children, pageLen, faulty, DA_JOBS, callerVars, pc, daCtx,
                 details, sourceKeys, remainingKeys, continuationToken, listToken,
                 result, uuids, clock, fan, listRequests, ledgerCalls>>
  /\ UNCHANGED <<authVars, built>>

DeleteReturns(i, j) ==
  /\ task[i][j].pc = "delete"
  /\ Commit(i, Deleted(World(i), i, j))
  /\ TaskFrame

\* a copyFile call run from the answer to its first request to its settling
copyFile(w, i, j) ==
  LET a == CopyReturned(w, i, j)
      b == IF a.task[j].pc = "get" THEN GotObject(a, i, j) ELSE a
      c == IF Writing(b.task[j]) THEN WriteReturned(b, i, j) ELSE b IN
  IF c.task[j].inv = "pending" THEN Invalidated(c, j) ELSE c

\* a deleteObject call run from its signed URL to its settling
deleteObject(w, i, j) ==
  LET a == Deleted(Signed(w, j), i, j) IN
  IF a.task[j].inv = "pending" THEN Invalidated(a, j) ELSE a

RunTask(w, i, j) ==
  IF operation = "delete" THEN deleteObject(w, i, j) ELSE copyFile(w, i, j)

\* the per-key calls lo..hi, each run to its settling, in call order
RECURSIVE RunRange(_, _, _, _)
RunRange(w, i, lo, hi) ==
  IF lo > hi THEN w
  ELSE IF lo = hi THEN RunTask(w, i, lo)
  ELSE LET mid == (lo + hi) \div 2
           left == RunRange(w, i, lo, mid) IN
       \* the left half is run before the right half is entered
       IF left.nsettled >= w.nsettled THEN RunRange(left, i, mid + 1, hi) ELSE left

\* a batch of at most MaxInterleave keys settles step by step, in any order
Interleaved(i) == Len(task[i]) <= MaxInterleave

\* the calls of the batch were they to stop once one of them has thrown
TurnUntilThrown(i) ==
  IF Interleaved(i) /\ ~rejected[i]
  THEN {j \in 1..Len(task[i]) : task[i][j].pc # "settled"}
  ELSE {}

\* the per-key calls that may take their next step: every call of the batch
\* that has not settled, whatever its siblings and its coordinator have done
Turn(i) ==
  IF Interleaved(i)
  THEN {j \in 1..Len(task[i]) : task[i][j].pc # "settled"}
  ELSE {}

\* a larger batch settles in one step, its per-key calls in call order
BatchSettles(i) ==
  /\ ~Interleaved(i)
  /\ nsettled[i] < Len(task[i])
  /\ Commit(i, RunRange(World(i), i, 1, Len(task[i])))
  /\ TaskFrame

\* ------------------------------------------------------------------ Next

Next ==
  \E i \in Calls :
    \/ Call(i)
    \/ ListReturns(i)
    \/ DrainReturns(i)
    \/ JobsGetReturns(i)
    \/ Join(i)
    \/ JobsPutReturns(i)
    \/ JobsDeleteReturns(i)
    \/ JoinRejects(i)
    \/ DeleteListReturns(i)
    \/ DeleteJoin(i)
    \/ RequestFails(i)
    \/ BatchSettles(i)
    \/ \E j \in Turn(i) :
         \/ CopyReturns(i, j)
         \/ GetReturns(i, j)
         \/ WriteReturns(i, j)
         \/ FallbackFails(i, j)
         \/ InvalidateReturns(i, j)
         \/ SignReturns(i, j)
         \/ SignFails(i, j)
         \/ DeleteReturns(i, j)

Spec == Init /\ [][Next]_vars

\* ------------------------------------------------------------ utils/auth.js

\* { email: 'anonymous' }
Anonymous == [email |-> "anonymous"]

\* s.split(sep), sep one character: the pieces of s from position i on
RECURSIVE SplitFrom(_, _, _)
SplitFrom(s, sep, i) ==
  LET j == IndexFrom(s, sep, i) IN
  IF j = 0 THEN <<SubSeq(s, i, Len(s))>>
  ELSE <<SubSeq(s, i, j - 1)>> \o SplitFrom(s, sep, j + 1)

Split(s, sep) == SplitFrom(s, sep, 1)

\* the white space String.prototype.trim removes
WhiteSpace == {" ", "\t"}

RECURSIVE TrimStart(_)
TrimStart(s) ==
  IF Len(s) > 0 /\ SubSeq(s, 1, 1) \in WhiteSpace
  THEN TrimStart(SubSeq(s, 2, Len(s))) ELSE s

RECURSIVE TrimEnd(_)
TrimEnd(s) ==
  IF Len(s) > 0 /\ SubSeq(s, Len(s), Len(s)) \in WhiteSpace
  THEN TrimEnd(SubSeq(s, 1, Len(s) - 1)) ELSE s

\* token.trim()
Trim(s) == TrimEnd(TrimStart(s))

\* authHeader.split(',').map((auth) => auth.split(' ').pop())
TokensOf(header) ==
  LET entries == Split(header, ",") IN
  [k \in 1..Len(entries) |->
     LET words == Split(entries[k], " ") IN words[Len(words)]]

\* the test were it made without trim()
BlankUntrimmed(token) == token = None

\* !token || token.trim().length === 0
Blank(token) == token = None \/ Len(Trim(token)) = 0

\* the tokens the identity provider has signed, with their payload, and a
\* token that claims user u1 under a signature that does not verify
Jwts ==
  [tA |-> [valid |-> TRUE, user_id |-> "u1", created_at |-> 10, expires_in |-> 20],
   tB |-> [valid |-> TRUE, user_id |-> "u2", created_at |-> 10, expires_in |-> 5],
   tForged |-> [valid |-> FALSE, user_id |-> "u1", created_at |-> 10,
                expires_in |-> 20]]

\* await jwtVerify(token, JWKS_IMS): <<payload>>, or <<>> when it rejects
jwtVerify(token) ==
  IF token \in DOMAIN Jwts /\ Jwts[token].valid THEN <<Jwts[token]>> ELSE <<>>

\* expires = Number(createdAt) + Number(expiresIn)
Expires(payload) == payload.created_at + payload.expires_in

\* the test were it to allow a second of grace
ExpiredAfterGrace(expires, t) == expires + 1 < t

\* if (expires < now)
Expired(expires, t) == expires < t

\* the email the identity service gives for a user id, in json.email
ProfileEmail == [u1 |-> "aparker@geometrixx.info", u2 |-> "chad@geometrixx.info"]

\* JSON.stringify({ email })
Stringify(email) == "{\"email\":\"" \o email \o "\"}"

\* JSON.parse(user) of such a string
JsonParse(user) == [email |-> SubSeq(user, 11, Len(user) - 2)]

\* setUser were it to cache the anonymous identity when the request is not ok
SetUserCachesFailure(userId, ok) == Stringify(IF ok THEN ProfileEmail[userId] ELSE "anonymous")

\* setUser(userId, expiration, headers, env) once the profile request has
\* returned: null when it is not ok, else the value it will store and return
setUser(userId, ok) == IF ok THEN Stringify(ProfileEmail[userId]) ELSE None

\* Math.floor(expires / 1000), the expiration setUser is called with
Expiration(expires) == expires \div 1000

\* a parseUser call: its token, the await it is suspended at, what it took
\* from the payload, the time it compared with, resp.ok of its profile
\* request, the JSON string in user and the object it returned
NewParse(token, await) ==
  [token |-> token, pc |-> await, userId |-> None, expires |-> 0, at |-> 0,
   ok |-> <<>>, user |-> None, out |-> <<>>]

\* return { email: 'anonymous' }
ReturnAnonymous(e) == [e EXCEPT !.pc = "done", !.out = <<Anonymous>>]

\* return JSON.parse(user)
ReturnUser(e, user) ==
  [e EXCEPT !.pc = "done", !.user = user, !.out = <<JsonParse(user)>>]

\* parseUser(token) up to its first await
parseUser(token) ==
  IF Blank(token) THEN ReturnAnonymous(NewParse(token, "done"))
  ELSE NewParse(token, "verify")

\* Promise.all(...): resolved with the users once every parseUser call has
\* returned
All(ps) ==
  IF \A k \in DOMAIN ps : ps[k].pc = "done"
  THEN [k \in DOMAIN ps |-> ps[k].out[1]] ELSE <<>>

\* the k-th parseUser call of request r moves on to e
Settle(r, k, e) ==
  LET ps == [parse[r] EXCEPT ![k] = e] IN
  /\ parse' = [parse EXCEPT ![r] = ps]
  /\ users' = [users EXCEPT ![r] = All(ps)]

AuthCall(r, k, op, key) ==
  authCalls' = authCalls \cup {[req |-> r, entry |-> k, op |-> op, key |-> key]}

\* the authorization headers of the run's requests: none, one bearer token,
\* an empty entry, a blank token, two tokens, and one token twice
AuthHeaders ==
  {None, "Bearer tB", ",Bearer tA", "Bearer \t,Bearer tForged",
   "Bearer tA,Bearer tB", "Bearer tA,Bearer tA"}

\* getUsers(req, env) up to its first await
getUsers(r, header) ==
  /\ authHeader' = [authHeader EXCEPT ![r] = header]
  /\ IF header = None
     THEN \* if (!authHeader) return [{ email: 'anonymous' }]
          /\ users' = [users EXCEPT ![r] = <<Anonymous>>]
          /\ UNCHANGED parse
     ELSE LET tokens == TokensOf(header)
              ps == [k \in 1..Len(tokens) |-> parseUser(tokens[k])] IN
          /\ parse' = [parse EXCEPT ![r] = ps]
          /\ users' = [users EXCEPT ![r] = All(ps)]

\* every request made so far has been answered
AllAnswered == \A q \in 1..nreqs : users[q] # <<>>

\* a request arrives once the one before it has been answered
GetUsers(r) ==
  /\ r = nreqs + 1
  /\ r <= MaxReqs
  /\ AllAnswered
  /\ \E header \in AuthHeaders : getUsers(r, header)
  /\ nreqs' = r
  /\ UNCHANGED <<copyVars, built, DA_AUTH, DA_CONFIG, seconds, authCalls, authorized>>

\* await jwtVerify(...) settles; when the token verifies and has not expired,
\* the session cache is asked: user = await env.DA_AUTH.get(userId)
Verified(r, k) ==
  /\ parse[r][k].pc = "verify"
  /\ LET e == parse[r][k]
         v == jwtVerify(e.token) IN
     IF v = <<>>
     THEN \* catch { return { email: 'anonymous' } }
          /\ Settle(r, k, ReturnAnonymous(e))
          /\ UNCHANGED authCalls
     ELSE LET seen == [e EXCEPT !.userId = v[1].user_id,
                                !.expires = Expires(v[1]), !.at = seconds] IN
          IF Expired(seen.expires, seconds)
          THEN /\ Settle(r, k, ReturnAnonymous(seen))
               /\ UNCHANGED authCalls
          ELSE /\ Settle(r, k, [seen EXCEPT !.pc = "get"])
               /\ AuthCall(r, k, "get", seen.userId)
  /\ UNCHANGED <<copyVars, built, DA_AUTH, DA_CONFIG, seconds, nreqs, authHeader, authorized>>

\* env.DA_AUTH.get answers; if (!user) the profile request of setUser is sent
\* with the header authorization: Bearer <token>
CacheReturns(r, k) ==
  /\ parse[r][k].pc = "get"
  /\ LET e == parse[r][k] IN
     IF e.userId \in DOMAIN DA_AUTH
     THEN /\ Settle(r, k, ReturnUser(e, DA_AUTH[e.userId].value))
          /\ UNCHANGED authCalls
     ELSE /\ Settle(r, k, [e EXCEPT !.pc = "fetch"])
          /\ AuthCall(r, k, "profile", "Bearer " \o e.token)
  /\ UNCHANGED <<copyVars, built, DA_AUTH, DA_CONFIG, seconds, nreqs, authHeader, authorized>>

\* the identity service answers the profile request, ok or not; when ok the
\* value is put: await env.DA_AUTH.put(userId, value, { expiration })
ProfileReturns(r, k) ==
  /\ parse[r][k].pc = "fetch"
  /\ \E ok \in BOOLEAN :
       LET e == [parse[r][k] EXCEPT !.ok = <<ok>>]
           value == setUser(e.userId, ok) IN
       IF value = None
       THEN \* if (!user) return { email: 'anonymous' }
            /\ Settle(r, k, ReturnAnonymous(e))
            /\ UNCHANGED authCalls
       ELSE /\ Settle(r, k, [e EXCEPT !.pc = "put", !.user = value])
            /\ AuthCall(r, k, "put", e.userId)
  /\ UNCHANGED <<copyVars, built, DA_AUTH, DA_CONFIG, seconds, nreqs, authHeader, authorized>>

\* env.DA_AUTH.put returns: setUser returns the value and parseUser the user
PutReturns(r, k) ==
  /\ parse[r][k].pc = "put"
  /\ LET e == parse[r][k] IN
     /\ DA_AUTH' = (e.userId :> [value |-> e.user,
                                 expiration |-> Expiration(e.expires)]) @@ DA_AUTH
     /\ Settle(r, k, ReturnUser(e, e.user))
  /\ UNCHANGED <<copyVars, built, DA_CONFIG, seconds, nreqs, authHeader, authCalls, authorized>>

\* the session cache drops an entry whose expiration has passed; what a
\* request in flight sees of it is whether its read comes before or after
Expire(u) ==
  /\ AllAnswered
  /\ u \in DOMAIN DA_AUTH
  /\ DA_AUTH' = [v \in DOMAIN DA_AUTH \ {u} |-> DA_AUTH[v]]
  /\ UNCHANGED <<copyVars, built, DA_CONFIG, seconds, nreqs, authHeader, parse, users,
                 authCalls, authorized>>

\* the time the run starts at: the last second at which token tB is valid
Now0 == Expires(Jwts.tB)

\* a second passes between two requests
Tick ==
  /\ AllAnswered
  /\ seconds < Now0 + MaxTicks
  /\ seconds' = seconds + 1
  /\ UNCHANGED <<copyVars, built, DA_AUTH, DA_CONFIG, nreqs, authHeader, parse, users,
                 authCalls, authorized>>

\* the bulk engine at rest: no copyObject or deleteObjects call is made
CopyIdle ==
  /\ operation = "copy"
  /\ children = <<>>
  /\ pageLen = MaxKeys
  /\ objects = <<>>
  /\ faulty = {}
  /\ outages = 0
  /\ probes = 0
  /\ DA_JOBS = <<>>
  /\ ncalls = 0
  /\ listed = FALSE
  /\ InitCalls
  /\ InitLogs

AuthInit ==
  /\ CopyIdle
  /\ DA_AUTH = <<>>
  /\ seconds = Now0
  /\ nreqs = 0
  /\ authHeader = [r \in Reqs |-> None]
  /\ parse = [r \in Reqs |-> <<>>]
  /\ users = [r \in Reqs |-> <<>>]
  /\ authCalls = {}
  /\ authorized = <<>>
  /\ built = <<>>
  /\ DA_CONFIG = <<>>

AuthNext ==
  \/ \E r \in Reqs :
       \/ GetUsers(r)
       \/ \E k \in DOMAIN parse[r] :
            \/ Verified(r, k)
            \/ CacheReturns(r, k)
            \/ ProfileReturns(r, k)
            \/ PutReturns(r, k)
  \/ \E u \in DOMAIN ProfileEmail : Expire(u)
  \/ Tick

AuthSpec == AuthInit /\ [][AuthNext]_vars

\* ------------------------------------------------------------ isAuthorized

UpperCase == "ABCDEFGHIJKLMNOPQRSTUVWXYZ"
LowerCase == "abcdefghijklmnopqrstuvwxyz"

\* one character in lower case
LowerChar(c) ==
  LET n == IndexFrom(UpperCase, c, 1) IN
  IF n = 0 THEN c ELSE SubSeq(LowerCase, n, n)

\* s.toLowerCase()
RECURSIVE toLowerCase(_)
toLowerCase(s) ==
  IF Len(s) = 0 THEN s
  ELSE LowerChar(SubSeq(s, 1, 1)) \o toLowerCase(SubSeq(s, 2, Len(s)))

Row(key, value) == [key |-> key, value |-> value]

\* a config of one sheet, and one of several sheets
Sheet(rows) == [type |-> "sheet", data |-> rows]
MultiSheet(rows, others) ==
  [type |-> "multi-sheet", data |-> [data |-> rows, otherdata |-> others]]

\* what env.DA_CONFIG may hold: no entry for wknd; geometrixx with one or two
\* administrators, in one sheet or several; beagle with rows, or none, or a
\* data sheet, that name no administrator
Configs ==
  {[geometrixx |-> Sheet(<<Row("admin.role.all", "aPaRKer@Geometrixx.Info")>>),
    beagle |-> Sheet(<<Row("foo", "bar")>>)],
   [geometrixx |-> MultiSheet(<<Row("admin.role.all", "aPaRKer@Geometrixx.Info")>>,
                              <<Row("foo", "bar")>>),
    beagle |-> Sheet(<<>>)],
   [geometrixx |-> Sheet(<<Row("foo", "bar"),
                           Row("admin.role.all", "aparker@geometrixx.info"),
                           Row("admin.role.all", "Chad@Geometrixx.info")>>),
    beagle |-> MultiSheet(<<Row("foo", "bar")>>,
                          <<Row("admin.role.all", "chad@geometrixx.info")>>)]}

\* the org and the user isAuthorized is called with
OrgInputs == {None, "wknd", "geometrixx", "beagle"}
Emails ==
  {"aparker@geometrixx.info", "ApaRkeR@geometrixx.info", "chad@geometrixx.info",
   "aparker@geometrixx.inf"}

\* if (props[':type'] === 'multi-sheet') props = props.data
SheetOf(props) == IF props.type = "multi-sheet" THEN props.data ELSE props

\* props.data.reduce(...): the values of the rows whose key is admin.role.all
Admins(rows) ==
  LET named == SelectSeq(rows, LAMBDA d : d.key = "admin.role.all") IN
  [k \in 1..Len(named) |-> named[k].value]

\* if (!admins): admins is an array, and an array is truthy even when empty
NoAdmins(admins) == FALSE

\* the comparison were it made on the strings as they are
SomeAdminExact(admins, user) == \E k \in DOMAIN admins : admins[k] = user.email

\* admins.some((admin) => admin.toLowerCase() === user.email.toLowerCase())
SomeAdmin(admins, user) ==
  \E k \in DOMAIN admins : toLowerCase(admins[k]) = toLowerCase(user.email)

\* isAuthorized(env, org, user)
isAuthorized(org, user) ==
  IF org = None THEN TRUE
  ELSE IF org \notin DOMAIN DA_CONFIG THEN TRUE
  ELSE LET props == SheetOf(DA_CONFIG[org])
           admins == Admins(props.data) IN
       IF NoAdmins(admins) THEN TRUE ELSE SomeAdmin(admins, user)

\* a call of isAuthorized
IsAuthorized ==
  /\ Len(authorized) < MaxChecks
  /\ \E org \in OrgInputs, email \in Emails :
       authorized' = Append(authorized,
                            [org |-> org, email |-> email,
                             result |-> isAuthorized(org, [email |-> email])])
  /\ UNCHANGED <<copyVars, built, DA_AUTH, DA_CONFIG, seconds, nreqs, authHeader, parse,
                 users, authCalls>>

AuthzInit ==
  /\ CopyIdle
  /\ AuthIdle
  /\ DA_CONFIG \in Configs

AuthzNext == IsAuthorized

AuthzSpec == AuthzInit /\ [][AuthzNext]_vars

\* ------------------------------------------------- copyFile's input, alone

\* details.source of the calls: a directory and a file
KeySources == {DirKey, "a"}

\* what follows details.source in a source key; the source may occur again
KeyRests == {"", ".props", "/f1.html", "/" \o DirKey \o "/a.html"}

\* details.destination of the calls: plain paths, and paths that hold a
\* dollar sign
KeyDestinations == {NewDir, DirKey, "a", "new$&", "$&", "$$", "b$'"}

\* the keys a call hands to copyFile, one batch of at most MaxBatch
MaxBatch == 2

KeyBatches(source) ==
  UNION {[1..n -> {source \o rest : rest \in KeyRests}] : n \in 1..MaxBatch}

\* copyFile is called for details and keys drawn here; the store is never asked
KeyInit ==
  /\ operation \in {"copy", "rename"}
  /\ children = <<>>
  /\ pageLen = MaxKeys
  /\ objects = <<>>
  /\ faulty = {}
  /\ outages = 0
  /\ probes = 0
  /\ DA_JOBS = <<>>
  /\ ncalls = 0
  /\ listed = FALSE
  /\ \E source \in KeySources, destination \in KeyDestinations :
       /\ details = [i \in Calls |->
                       IF i = 1
                       THEN [source |-> source, destination |-> destination,
                             continuationToken |-> None]
                       ELSE NoDetails]
       /\ \E keys \in KeyBatches(source) :
            sourceKeys = [i \in Calls |-> IF i = 1 THEN keys ELSE <<>>]
  /\ pc = [i \in Calls |-> "idle"]
  /\ daCtx = [i \in Calls |-> DirCtx]
  /\ remainingKeys = [i \in Calls |-> <<>>]
  /\ continuationToken = [i \in Calls |-> None]
  /\ listToken = [i \in Calls |-> None]
  /\ task = [i \in Calls |-> <<>>]
  /\ nsettled = [i \in Calls |-> 0]
  /\ rejected = [i \in Calls |-> FALSE]
  /\ result = [i \in Calls |-> [status |-> 0, body |-> <<>>]]
  /\ InitLogs
  /\ AuthIdle
  /\ DA_CONFIG = <<>>

\* copyFile builds the input for the next key: lines 26 to 47
BuildCopyInput ==
  /\ Len(built) < Len(sourceKeys[1])
  /\ built' = Append(built,
                     CopyInput(daCtx[1], sourceKeys[1][Len(built) + 1],
                               details[1], isRename, uuids, clock))
  /\ uuids' = IF isRename THEN uuids ELSE uuids + 2
  /\ UNCHANGED <<storeVars, DA_JOBS, callerVars, callVars, clock, fan, resent,
                 listRequests, ledgerCalls, collab, storeCalls, overwrites,
                 authVars>>

KeyNext == BuildCopyInput

KeySpec == KeyInit /\ [][KeyNext]_vars


\* ------------------------------------------------------------- properties

Min(a, b) == IF a < b THEN a ELSE b

\* invocation i has been made / has returned
Started(i) == pc[i] # "idle"
Returned(i) == pc[i] = "returned"

\* the list requests and the ledger calls invocation i made
ListRequestsOf(i) == {k \in DOMAIN listRequests : listRequests[k].call = i}
LedgerCallsOf(i) == {k \in DOMAIN ledgerCalls : ledgerCalls[k].call = i}

\* invocation i reached no store, no ledger and no cache invalidator
Untouched(i) ==
  /\ task[i] = <<>>
  /\ ListRequestsOf(i) = {}
  /\ LedgerCallsOf(i) = {}
  /\ \A c \in storeCalls \cup resent \cup overwrites : c.call # i
  /\ \A n \in BagToSet(collab) : n.call # i

\* a copyObject call on a directory that lists it (no token), and one that
\* resumes the job with token t
Lists(i) ==
  /\ operation # "delete" /\ Started(i)
  /\ daCtx[i].ext = None
  /\ details[i].source # details[i].destination
  /\ details[i].continuationToken = None

Resumes(i, t) ==
  /\ operation # "delete" /\ Started(i)
  /\ details[i].source # details[i].destination
  /\ t # None
  /\ details[i].continuationToken = t

Succeeded(i) == Returned(i) /\ result[i].status \in {204, 206}

\* C1: a copyObject call whose source equals its destination returns status
\* 409 with an empty body and reaches no store, ledger or cache invalidator,
\* whether or not it carries a continuation token.
C1_SameLocationConflict ==
  \A i \in Calls :
    (operation # "delete" /\ Started(i) /\ details[i].source = details[i].destination)
      => /\ Returned(i)
         /\ result[i] = [status |-> 409, body |-> <<"">>]
         /\ Untouched(i)

\* a same-location call that carried the token of a job has returned
C1_Witness ==
  \E i \in Calls :
    /\ operation # "delete" /\ Returned(i)
    /\ details[i].source = details[i].destination
    /\ details[i].continuationToken \in DOMAIN DA_JOBS

\* the calls of the run that list the directory or resume a job of it
JobCalls == {i \in Calls : Lists(i) \/ \E t \in ReturnedTokens : Resumes(i, t)}

\* the run is over: its last call returned 204, every call before it 206
RunFinished ==
  /\ JobCalls # {}
  /\ \A i \in JobCalls :
       /\ Returned(i)
       /\ result[i].status = IF \A k \in JobCalls : k <= i THEN 204 ELSE 206

\* the keys the calls 1..k of the run passed to copyFile, in order
RECURSIVE PassedUpTo(_)
PassedUpTo(k) ==
  IF k = 0 THEN <<>>
  ELSE PassedUpTo(k - 1) \o (IF k \in JobCalls THEN CopyFileCalls(k) ELSE <<>>)

AllKeys == {DirKey, PropsKey} \cup {children[k] : k \in 1..Len(children)}

\* C2: over a run of a listing call and the resumed calls that follow it
\* until 204 is returned, none of them failing, every key of the two synthetic
\* keys and the children is passed to copyFile exactly once.
C2_EveryKeyOnce ==
  RunFinished =>
    LET passed == PassedUpTo(MaxCalls) IN
    /\ Len(passed) = Cardinality(AllKeys)
    /\ {passed[k] : k \in 1..Len(passed)} = AllKeys

\* a run of a listing call and at least two resumed calls has finished
C2_Witness == RunFinished /\ Cardinality(JobCalls) >= 3

\* C3: a resumed call that finds R under its token t passes exactly the first
\* min(|R|, 900) keys of R to copyFile; when all of them succeed it stores R
\* without that prefix under t and returns 206 with exactly t in the body if
\* |R| > 900, and otherwise deletes t and returns 204 without a body.
C3_ResumeTakesPrefix ==
  [][\A i \in Calls :
       LET t == continuationToken[i]
           R == DA_JOBS[t] IN
       /\ (pc[i] = "jobsGet" /\ pc'[i] = "join")
            => CopyFileCalls(i)' = SubSeq(R, 1, Min(Len(R), 900))
       /\ (Resumes(i, t) /\ ~Returned(i) /\ Returned(i)' /\ result'[i].status # 404)
            => /\ pc[i] \in {"jobsPut", "jobsDelete"}
               /\ IF Len(R) > 900
                  THEN /\ result'[i] =
                            [status |-> 206,
                             body |-> <<"{\"continuationToken\":\"" \o t \o "\"}">>]
                       /\ t \in DOMAIN DA_JOBS'
                       /\ DA_JOBS'[t] = SubSeq(R, 901, Len(R))
                  ELSE /\ result'[i] = [status |-> 204, body |-> <<>>]
                       /\ t \notin DOMAIN DA_JOBS']_vars

\* a resumed call has stored a remainder and returned 206
C3_Witness ==
  \E i \in Calls :
    /\ Resumes(i, continuationToken[i]) /\ Returned(i)
    /\ result[i].status = 206
    /\ Len(task[i]) = 900

\* the keys invocation i passed to copyFile
KeysOf(i) == {task[i][j].key : j \in 1..Len(task[i])}

\* C4 as stated: no two resumed calls for the same job token pass a common key
\* to copyFile.
C4_AsStated ==
  \A i, k \in Calls :
    (i < k /\ Resumes(i, continuationToken[i]) /\ Resumes(k, continuationToken[i]))
      => KeysOf(i) \cap KeysOf(k) = {}

\* C4: no key that a resumed call returning 206 or 204 passed to copyFile is
\* passed to it again by a later resumed call for the same job token.  (A call
\* that returns 404 leaves the ledger as it was, and its keys are passed again.)
C4_NoKeyTwice ==
  \A i, k \in Calls :
    (/\ i < k
     /\ Resumes(i, continuationToken[i]) /\ Resumes(k, continuationToken[i])
     /\ Succeeded(i))
      => KeysOf(i) \cap KeysOf(k) = {}

\* two resumed calls for one token have both passed keys and succeeded
C4_Witness ==
  \E i, k \in Calls :
    /\ i < k
    /\ Resumes(i, continuationToken[i]) /\ Resumes(k, continuationToken[i])
    /\ Succeeded(i) /\ Succeeded(k)
    /\ task[i] # <<>> /\ task[k] # <<>>

\* the listing call that created the run's job, and the resumed calls for
\* that job that have returned
Listers == {i \in Calls : Lists(i) /\ Returned(i) /\ result[i].status = 206}

ResumedOf(l) ==
  {i \in Calls : Resumes(i, continuationToken[l]) /\ Returned(i)}

\* the resumed calls a remainder of n keys takes: n / 900 rounded up
Needed(n) == (n + 899) \div 900

\* the job is gone and a resumed call returned 204 without a body
JobDone ==
  /\ DA_JOBS = <<>>
  /\ \E i \in Calls :
       /\ Resumes(i, continuationToken[i]) /\ Returned(i)
       /\ result[i] = [status |-> 204, body |-> <<>>]

\* a resumed call fails only when the store or the ledger failed a request,
\* or when the job was gone before the call was made
FailedByRequest(i) ==
  \/ \E j \in 1..Len(task[i]) : task[i][j].out = "throw"
  \/ \E c \in storeCalls : c.call = i /\ c.op = "outage"
  \/ \E k \in 1..(i - 1) : Resumes(k, continuationToken[i]) /\ result[k].status = 204

\* C5: a job holding a remainder R that is resumed again and again, one call
\* at a time, every store and ledger call returning, is gone from the ledger,
\* a call having returned 204, after exactly ceil(|R| / 900) resumed calls:
\* no resumed call fails of itself, and after n resumed calls the job is gone
\* exactly when n = ceil(|R| / 900), n never being larger.
C5_ResumptionEnds ==
  \A l \in Listers :
    /\ \A i \in ResumedOf(l) : result[i].status = 404 => FailedByRequest(i)
    /\ (\A i \in ResumedOf(l) : result[i].status # 404)
         => LET n == Cardinality(ResumedOf(l))
                need == Needed(Len(remainingKeys[l])) IN
            /\ n <= need
            /\ (n = need) <=> JobDone

\* a job of more than 900 keys has been resumed to its end
C5_Witness ==
  /\ JobDone
  /\ \E l \in Listers :
       /\ Len(remainingKeys[l]) > 900
       /\ Cardinality(ResumedOf(l)) = Needed(Len(remainingKeys[l]))

\* the number of keys the store returns in a page, and the number of pages
PageSize == Min(pageLen, 300)
Pages == (Len(children) + PageSize - 1) \div PageSize

\* C6: a non-resumed call whose first listing page carries a cursor lists every
\* further page before it passes a key to copyFile; its batch is the two
\* synthetic keys and the first page; unless it fails it stores the keys of the
\* later pages, in listing order, under a token copy-<source>-<destination>-
\* <uuid> and returns 206 with that token in the body.
C6_ListingDrained ==
  \A i \in Calls :
    (Lists(i) /\ Len(children) > PageSize)
      => /\ task[i] # <<>>
              => /\ Cardinality(ListRequestsOf(i)) = Pages
                 /\ CopyFileCalls(i) =
                      <<DirKey, PropsKey>> \o SubSeq(children, 1, PageSize)
         /\ (Returned(i) /\ result[i].status # 404)
              => LET t == continuationToken[i] IN
                 /\ result[i] =
                      [status |-> 206,
                       body |-> <<"{\"continuationToken\":\"" \o t \o "\"}">>]
                 /\ \E u \in 1..uuids :
                      t = "copy-" \o details[i].source \o "-"
                            \o details[i].destination \o "-" \o Uuid(u)
                 /\ ncalls = i
                      => /\ t \in DOMAIN DA_JOBS
                         /\ DA_JOBS[t] = SubSeq(children, PageSize + 1, Len(children))

\* a listing of four pages or more has been drained and 206 returned
C6_Witness ==
  \E i \in Calls :
    /\ Lists(i) /\ Returned(i) /\ result[i].status = 206
    /\ Cardinality(ListRequestsOf(i)) >= 4

\* C7 as stated: a non-resumed call returns 206 only when the two synthetic
\* keys and the children are more than 900 keys, and returns 204 without a
\* ledger call when they are 900 or fewer.
C7_AsStated ==
  \A i \in Calls :
    (Lists(i) /\ Returned(i) /\ result[i].status # 404)
      => /\ result[i].status = 206 => Len(children) + 2 > 900
         /\ Len(children) + 2 <= 900
              => result[i] = [status |-> 204, body |-> <<>>] /\ LedgerCallsOf(i) = {}

\* C7: a non-resumed call creates a job and returns 206 only when the store's
\* first listing page carries a cursor (the directory has more children than
\* the store returns in one page, at most 300); when the first page carries
\* none, the call passes every key to copyFile and, unless it fails, returns
\* 204 without a ledger call.
C7_JobOnlyWhenPaged ==
  \A i \in Calls :
    (Lists(i) /\ Returned(i) /\ result[i].status # 404)
      => /\ result[i].status = 206 => Len(children) > PageSize
         /\ Len(children) <= PageSize
              => /\ result[i] = [status |-> 204, body |-> <<>>]
                 /\ LedgerCallsOf(i) = {}
                 /\ CopyFileCalls(i) = <<DirKey, PropsKey>> \o children

\* a directory of no more than 900 keys has been given a job
C7_Witness ==
  \E i \in Calls :
    /\ Lists(i) /\ Returned(i) /\ result[i].status = 206
    /\ Len(children) + 2 <= 900
    /\ continuationToken[i] \in DOMAIN DA_JOBS

\* C8: every copyObject call returns 204 without a body, 206 with a JSON body
\* holding only continuationToken, 409 with an empty body or 404 with an empty
\* body; every deleteObjects call returns 204, 206 or 404 of the same shapes;
\* no call ends otherwise, and no body carries an error detail.
C8_FourOutcomes ==
  \A i \in Calls :
    Returned(i)
      => \/ result[i] = [status |-> 204, body |-> <<>>]
         \/ /\ continuationToken[i] # None
            /\ result[i] =
                 [status |-> 206,
                  body |-> <<"{\"continuationToken\":\"" \o continuationToken[i] \o "\"}">>]
         \/ result[i] = [status |-> 404, body |-> <<"">>]
         \/ operation # "delete" /\ result[i] = [status |-> 409, body |-> <<"">>]

\* a deleteObjects run has seen 206 and 404
C8_Witness ==
  /\ operation = "delete"
  /\ \E i, k \in Calls :
       /\ Returned(i) /\ result[i].status = 206
       /\ Returned(k) /\ result[k].status = 404

\* the UUIDs in the metadata of the copy requests of the run
MetadataUuids ==
  UNION {UNION {LET m == Sent(i, j).input.Metadata[1] IN {m.ID, m.Version} :
                  j \in 1..Len(task[i])} :
           i \in Calls}

\* the copyFile calls of the run
CopyFileCallsOfRun == UNION {{<<i, j>> : j \in 1..Len(task[i])} : i \in Calls}

\* C9: with isRename true the first copy request and the request sent after a
\* 412 carry no Metadata and no MetadataDirective; with isRename false every
\* copy request carries MetadataDirective REPLACE and Metadata made of a fresh
\* ID, a fresh Version other than the ID, a string Timestamp, Users as the JSON
\* of daCtx.users and Path as the destination key.
C9_RequestMetadata ==
  /\ operation = "rename"
       => /\ \A i \in Calls : \A j \in 1..Len(task[i]) :
               /\ Sent(i, j).input.Metadata = <<>>
               /\ Sent(i, j).input.MetadataDirective = None
          /\ \A r \in resent :
               r.cmd.input.Metadata = <<>> /\ r.cmd.input.MetadataDirective = None
  /\ operation = "copy"
       => /\ \A i \in Calls : \A j \in 1..Len(task[i]) :
               LET input == Sent(i, j).input IN
               /\ input.MetadataDirective = "REPLACE"
               /\ Len(input.Metadata) = 1
               /\ input.Metadata[1].ID # input.Metadata[1].Version
               /\ input.Metadata[1].Timestamp \in {ToString(n) : n \in 1..clock}
               /\ input.Metadata[1].Users = "[{\"email\":\"haha@foo.com\"}]"
               /\ input.Metadata[1].Path = input.Key
               /\ input.Key = DestKey(task[i][j].key, details[i])
          /\ Cardinality(MetadataUuids) = 2 * Cardinality(CopyFileCallsOfRun)
          /\ resent = {}

\* a rename has sent its second request after a 412
C9_Witness == operation = "rename" /\ resent # {}

\* C10: the first copy request of every key carries the header
\* cf-copy-destination-if-none-match: *, and with isRename false no copy
\* request replaces an object at the destination: the only write to an
\* occupied destination is putObjectWithVersion.
C10_NoBlindOverwrite ==
  /\ \A i \in Calls : \A j \in 1..Len(task[i]) :
       operation # "delete"
         => [name |-> "cf-copy-destination-if-none-match", value |-> "*"]
              \in Sent(i, j).headers
  /\ operation = "copy" => \A w \in overwrites : w.by = "put"

\* a copy has written to an occupied destination
C10_Witness == operation = "copy" /\ \E w \in overwrites : w.by = "put"

\* the requests s is a prefix of the requests t
IsPrefix(s, t) == Len(s) <= Len(t) /\ SubSeq(t, 1, Len(s)) = s

\* the requests of a copyFile call that ends in its finally block
WithSync(reqs, Key) ==
  IF EndsWith(Key, ".html") THEN reqs \o <<"syncAdmin">> ELSE reqs

\* the copyFile calls whose conditional copy the store answered with status
Answered(status) ==
  UNION {{<<i, j>> : j \in {k \in 1..Len(task[i]) : task[i][k].st = status}} :
           i \in Calls}

\* C11: a copyFile call with isRename false whose conditional copy fails with
\* 412 sends getObject for the source once and, unless getObject fails,
\* putObjectWithVersion once for the destination key with the source's body,
\* contentLength and contentType and nothing else (no ID, no Version); it sends
\* no second copy; what it returns is what the versioned put returns; and the
\* put leaves at the destination the source's content under the metadata the
\* destination had before.
C11_ConflictKeepsHistory ==
  /\ [](operation = "copy" =>
          \A c \in Answered(412) :
            LET t == task[c[1]][c[2]]
                Key == DestKey(t.key, details[c[1]]) IN
            /\ IsPrefix(t.did,
                        WithSync(IF t.got = <<>> /\ t.out = "throw"
                                 THEN <<"copy", "getObject">>
                                 ELSE <<"copy", "getObject", "putObjectWithVersion">>,
                                 Key))
            /\ t.pc = "settled" => Len(t.did) >= (IF t.got = <<>> THEN 2 ELSE 3)
            /\ \A r \in resent : r.call # c[1]
            /\ t.put # <<>>
                 => /\ t.put = <<[org |-> "foo", key |-> Key,
                                  body |-> objects[t.key].body,
                                  contentLength |-> Len(objects[t.key].body),
                                  type |-> objects[t.key].type]>>
                    /\ t.got = <<[body |-> objects[t.key].body,
                                  contentLength |-> Len(objects[t.key].body),
                                  contentType |-> objects[t.key].type]>>
            /\ (t.pc = "settled" /\ t.out = "ok") => t.val = "putObjectWithVersion"
            /\ t.wr = "done" => objects[Key].body = objects[t.key].body)
  /\ [][operation = "copy" =>
          \A c \in Answered(412) :
            LET i == c[1]
                j == c[2]
                Key == DestKey(task[i][j].key, details[i]) IN
            (task[i][j].wr = "put" /\ task'[i][j].wr = "done")
              => /\ objects'[Key].body = objects[task[i][j].key].body
                 /\ objects'[Key].type = objects[task[i][j].key].type
                 /\ objects'[Key].meta = objects[Key].meta]_vars

\* a copy has met an occupied destination and its versioned put has completed
C11_Witness ==
  /\ operation = "copy"
  /\ \E c \in Answered(412) :
       LET t == task[c[1]][c[2]] IN
       /\ t.pc = "settled" /\ t.wr = "done" /\ t.val = "putObjectWithVersion"
       /\ objects[DestKey(t.key, details[c[1]])].meta.ID
            = "id:" \o DestKey(t.key, details[c[1]])

\* the number of requests named op among reqs
Count(reqs, op) == Cardinality({k \in 1..Len(reqs) : reqs[k] = op})

\* C12: a copyFile call with isRename true whose conditional copy fails with
\* 412 sends the copy once more, with the same input and without the
\* if-none-match header, and that copy replaces the object at the destination;
\* it sends no getObject and no putObjectWithVersion, and no copyFile call
\* sends more than two copy commands.
C12_RenameOverwrites ==
  /\ \A i \in Calls : \A j \in 1..Len(task[i]) : Count(task[i][j].did, "copy") <= 2
  /\ operation = "rename" =>
       \A c \in Answered(412) :
         LET i == c[1]
             t == task[c[1]][c[2]]
             Key == DestKey(t.key, details[c[1]])
             again == {r \in resent : r.call = i /\ r.cmd.input.Key = Key} IN
         /\ IsPrefix(<<"copy", "copy">>, t.did)
         /\ IsPrefix(t.did, WithSync(<<"copy", "copy">>, Key))
         /\ again = {[call |-> i,
                      cmd |-> [input |-> [Bucket |-> "foo-content", Key |-> Key,
                                          CopySource |-> "foo-content/" \o t.key,
                                          Metadata |-> <<>>,
                                          MetadataDirective |-> ""],
                               headers |-> {}]]}
         /\ \A r \in again : r.cmd.input = Sent(i, c[2]).input
         /\ t.got = <<>> /\ t.put = <<>>
         /\ \A r \in storeCalls :
              r.call = i => r.op \notin {"getObject", "putObjectWithVersion"}
         /\ t.wr = "done"
              => /\ [call |-> i, key |-> Key, by |-> "copy"] \in overwrites
                 /\ objects[Key] = objects[t.key]

\* a rename has met an occupied destination and replaced the object there
C12_Witness ==
  /\ operation = "rename"
  /\ \E c \in Answered(412) :
       LET t == task[c[1]][c[2]] IN
       /\ t.pc = "settled" /\ t.wr = "done"
       /\ objects[DestKey(t.key, details[c[1]])].body = "body:" \o t.key

\* the statuses the store answered the conditional copies of invocation i with
StatusesOf(i) == {task[i][j].st : j \in 1..Len(task[i])}

\* a list or ledger request of invocation i failed
Outage(i) == \E c \in storeCalls : c.call = i /\ c.op = "outage"

\* C13: a copyFile call whose copy the store answers with 404 sends nothing
\* more (but syncAdmin for a .html key), writes nothing and returns a value
\* made of the error's $metadata; a copyObject call whose copies were all
\* answered with 200 or 404, and whose list and ledger requests did not fail,
\* returns what it returns when all are answered 200: 206 when a remainder is
\* left, 204 otherwise, never 404.
C13_NotFoundPassesThrough ==
  /\ \A c \in Answered(404) :
       LET t == task[c[1]][c[2]]
           Key == DestKey(t.key, details[c[1]]) IN
       /\ t.did = WithSync(<<"copy">>, Key)
       /\ t.out = "ok" /\ t.val = "$metadata"
       /\ t.wr = "" /\ t.got = <<>> /\ t.put = <<>>
       /\ \A w \in overwrites : ~(w.call = c[1] /\ w.key = Key)
  /\ \A i \in Calls :
       (/\ operation # "delete" /\ Returned(i) /\ task[i] # <<>>
        /\ StatusesOf(i) \subseteq {200, 404} /\ ~Outage(i))
         => result[i].status = IF remainingKeys[i] # <<>> THEN 206 ELSE 204

\* a directory without an object of its own or a .props object has been
\* copied: both synthetic keys were answered 404 and the call returned 206
C13_Witness ==
  \E i \in Calls :
    /\ operation = "copy" /\ Returned(i) /\ result[i].status = 206
    /\ {<<i, 1>>, <<i, 2>>} \subseteq Answered(404)
    /\ StatusesOf(i) = {200, 404}

\* the copyFile call j of invocation i has thrown
Threw(i, j) == task[i][j].pc = "settled" /\ task[i][j].out = "throw"

\* C14: a copyFile call whose copy the store answers with an error other than
\* 412 and 404 throws that error, as does one whose getObject, versioned put
\* or second copy fails after a 412; a copyObject call one of whose copyFile
\* calls has thrown stores nothing in the ledger and returns 404 with an empty
\* body.
C14_OtherErrorsAre404 ==
  /\ \A i \in Calls : \A j \in 1..Len(task[i]) :
       LET t == task[i][j] IN
       /\ t.st \notin {0, 200, 412, 404}
            => /\ t.out = "throw" /\ t.val = "e" /\ t.wr = ""
               /\ t.did = WithSync(<<"copy">>, DestKey(t.key, details[i]))
       /\ (t.wr = "failed" \/ (t.st = 412 /\ t.pc # "get" /\ ~isRename /\ t.got = <<>>))
            => t.out = "throw" /\ t.val = "e"
  /\ \A i \in Calls :
       (operation # "delete" /\ \E j \in 1..Len(task[i]) : Threw(i, j))
         => /\ pc[i] \in {"join", "returned"}
            /\ Returned(i) => result[i] = [status |-> 404, body |-> <<"">>]
            /\ \A k \in LedgerCallsOf(i) : ledgerCalls[k].op = "get"

\* the store has failed a copy with 500 and the call has returned 404
C14_Witness ==
  \E i \in Calls : \E j \in 1..Len(task[i]) :
    /\ operation # "delete" /\ task[i][j].st = 500 /\ Threw(i, j)
    /\ Returned(i) /\ result[i].status = 404

\* the copyFile call j of invocation i can take its next step: it is among
\* the calls that may, and the guard of CopyReturns, GetReturns, WriteReturns
\* or InvalidateReturns holds of it
CanStep(i, j) ==
  /\ j \in Turn(i)
  /\ \/ task[i][j].pc = "copy"
     \/ task[i][j].pc = "get"
     \/ task[i][j].pc = "finally" /\ Writing(task[i][j])
     \/ task[i][j].pc = "finally" /\ task[i][j].inv = "pending"

\* C15: once copyObject has made its fan-out, every key of the batch has had
\* its conditional copy sent, in batch order; and whatever the store answered
\* the other keys, in whatever order, and whether or not copyObject has
\* returned, every copyFile call that has not settled can take its next step,
\* and every answer is the store's answer to that key alone.
C15_SiblingsUnaffected ==
  \A i \in Calls :
    (operation # "delete" /\ task[i] # <<>>)
      => /\ CopyFileCalls(i) = sourceKeys[i]
         /\ \A j \in 1..Len(task[i]) :
              LET t == task[i][j] IN
              /\ t.did[1] = "copy"
              /\ (Interleaved(i) /\ t.pc # "settled") => CanStep(i, j)
              /\ t.st # 0
                   => t.st = IF t.key \in faulty THEN 500
                             ELSE IF t.key \notin DOMAIN objects THEN 404
                             ELSE IF t.st = 412 THEN 412 ELSE 200

\* a copy failed, copyObject returned 404, and a sibling whose copy was
\* answered afterwards has settled with its object written
C15_Witness ==
  \E i \in Calls : \E j, k \in 1..Len(task[i]) :
    /\ operation = "copy" /\ Returned(i) /\ result[i].status = 404
    /\ Threw(i, j) /\ j < k
    /\ task[i][k].pc = "settled" /\ task[i][k].st = 200
    /\ DestKey(task[i][k].key, details[i]) \in DOMAIN objects

\* every per-key call of invocation i has settled: no copy, getObject,
\* versioned put, delete or invalidation of its batch is in flight
BatchSettled(i) == \A j \in 1..Len(task[i]) : task[i][j].pc = "settled"

\* C16: copyObject and deleteObjects make their ledger put or delete and
\* return their outcome, 404 included, only when every per-key call of the
\* batch has settled.
C16_JoinBarrier ==
  \A i \in Calls :
    /\ Returned(i) => BatchSettled(i)
    /\ (\E k \in LedgerCallsOf(i) : ledgerCalls[k].op \in {"put", "delete"})
         => BatchSettled(i)

\* the syncAdmin notifications invocation i sent for the destination key Key
SyncAdmins(i, Key) ==
  CopiesIn([call |-> i, kind |-> "syncAdmin",
            url |-> "somehost.sometld/source/foo/" \o Key], collab)

\* the notifications invocation i sent
NotificationsOf(i) ==
  LET mine == {n \in BagToSet(collab) : n.call = i} IN
  BagCardinality([n \in mine |-> collab[n]])

\* C17: a copyFile call that has left its try / catch, by whichever path, has
\* sent exactly one syncAdmin notification for <origin>/source/<org>/<Key> when
\* the destination key Key ends in .html and none when it does not; before
\* that it has sent none, and a copyObject call sends no other notification.
C17_OneSyncPerHtmlCopy ==
  \A i \in Calls :
    operation # "delete" =>
      /\ \A j \in 1..Len(task[i]) :
           LET t == task[i][j]
               Key == DestKey(t.key, details[i])
               due == IF t.pc \in {"finally", "settled"}
                         /\ Len(Key) >= 5
                         /\ SubSeq(Key, Len(Key) - 4, Len(Key)) = ".html"
                      THEN 1 ELSE 0 IN
           /\ SyncAdmins(i, Key) = due
           /\ Count(t.did, "syncAdmin") = due
           /\ due = 1 => t.did[Len(t.did)] = "syncAdmin"
      /\ NotificationsOf(i) =
           Cardinality({j \in 1..Len(task[i]) :
                          Count(task[i][j].did, "syncAdmin") = 1})

\* a copy to a .html key was failed by the store, and the call that threw
\* has sent its notification
C17_Witness ==
  \E i \in Calls : \E j \in 1..Len(task[i]) :
    /\ operation # "delete" /\ Threw(i, j) /\ task[i][j].st = 500
    /\ SyncAdmins(i, DestKey(task[i][j].key, details[i])) = 1

\* the deleteadmin notifications invocation i sent for Key
DeleteAdmins(i, Key) ==
  CopiesIn([call |-> i, kind |-> "deleteadmin",
            url |-> "somehost.sometld/source/foo/" \o Key], collab)

IsHtml(Key) == Len(Key) >= 5 /\ SubSeq(Key, Len(Key) - 4, Len(Key)) = ".html"

\* C18 as stated: every deleteObject call that has settled has sent exactly
\* one deleteadmin notification when its key ends in .html, after its delete
\* request, and none when it does not.
C18_AsStated ==
  \A i \in Calls : \A j \in 1..Len(task[i]) :
    (operation = "delete" /\ task[i][j].pc = "settled")
      => LET t == task[i][j] IN
         IF IsHtml(t.key)
         THEN /\ DeleteAdmins(i, t.key) = 1
              /\ t.did = <<"getSignedUrl", "fetch", "deleteadmin">>
         ELSE /\ DeleteAdmins(i, t.key) = 0
              /\ t.did = <<"getSignedUrl", "fetch">>

\* C18: a deleteObject call whose signed URL and DELETE request have returned
\* without throwing has sent exactly one deleteadmin notification for
\* <origin>/source/<org>/<key> when the key ends in .html, after the DELETE
\* request, and none when it does not; a call whose request threw has sent
\* none and returns the error; no call sends one before its DELETE request is
\* answered, and a deleteObjects call sends no other notification.
C18_DeleteNotifiesOnce ==
  \A i \in Calls :
    operation = "delete" =>
      /\ \A j \in 1..Len(task[i]) :
           LET t == task[i][j]
               answered == t.pc \in {"finally", "settled"} /\ t.out = "ok"
               due == IF answered /\ IsHtml(t.key) THEN 1 ELSE 0 IN
           /\ DeleteAdmins(i, t.key) = due
           /\ IF t.pc = "settled" /\ ~answered
              THEN t.did \in {<<"getSignedUrl">>, <<"getSignedUrl", "fetch">>}
              ELSE t.did = IF t.pc = "sign" THEN <<"getSignedUrl">>
                           ELSE IF due = 1
                           THEN <<"getSignedUrl", "fetch", "deleteadmin">>
                           ELSE <<"getSignedUrl", "fetch">>
           /\ (t.pc = "settled" /\ ~answered) => t.out = "error" /\ t.val = "e"
           /\ answered => t.key \notin DOMAIN objects
      /\ NotificationsOf(i) =
           Cardinality({j \in 1..Len(task[i]) :
                          Count(task[i][j].did, "deleteadmin") = 1})

\* a .html object has been deleted and its one notification sent, and a key
\* that does not end in .html has been deleted without one
C18_Witness ==
  \E i \in Calls : \E j, k \in 1..Len(task[i]) :
    /\ operation = "delete"
    /\ task[i][j].pc = "settled" /\ task[i][j].out = "ok"
    /\ IsHtml(task[i][j].key) /\ DeleteAdmins(i, task[i][j].key) = 1
    /\ task[i][k].pc = "settled" /\ task[i][k].out = "ok"
    /\ ~IsHtml(task[i][k].key)

\* invocation i calls listCommand for a key with an extension: a deleteObjects
\* call, or a copyObject call that neither resumes nor names one location
ListsFile(i) ==
  /\ Started(i) /\ daCtx[i].ext # ""
  /\ \/ operation = "delete"
     \/ details[i].continuationToken = "" /\ details[i].source # details[i].destination

\* C19: a call whose context key has an extension sends no list request,
\* whatever details.continuationToken and the bucket hold; its batch is the one
\* key daCtx.key, it has no continuation token, and it does not return 206.
C19_FileListsItself ==
  \A i \in Calls :
    ListsFile(i)
      => /\ ListRequestsOf(i) = {}
         /\ sourceKeys[i] = <<daCtx[i].key>>
         /\ CopyFileCalls(i) = <<daCtx[i].key>>
         /\ continuationToken[i] = "" /\ remainingKeys[i] = <<>>
         /\ Returned(i) => result[i].status # 206

\* a deleteObjects call for a file that carried a continuation token has
\* returned 204, the bucket holding children of the directory
C19_Witness ==
  \E i \in Calls :
    /\ operation = "delete" /\ ListsFile(i) /\ details[i].continuationToken # ""
    /\ Returned(i) /\ result[i].status = 204
    /\ children # <<>>

\* the children at positions after o that the bucket holds, in store order
LiveAfter(o) ==
  SelectSeq(SubSeq(children, o + 1, Len(children)), LAMBDA k : k \in DOMAIN objects)

\* the page the store returns for the list request invocation i waits for
PageOf(i) ==
  LET o == CHOOSE n \in 0..Len(children) :
             listToken[i] = IF n = 0 THEN "" ELSE "page-" \o ToString(n)
      live == LiveAfter(o) IN
  [keys |-> SubSeq(live, 1, Min(PageSize, Len(live))),
   more |-> Len(live) > PageSize]

\* listCommand of invocation i returns in this step
ListCommandReturns(i) ==
  /\ pc[i] \in {"list", "drain"}
  /\ pc'[i] # "returned"
  /\ pc'[i] # pc[i] \/ listToken'[i] # listToken[i]

\* C20: every listCommand call for a directory key sends one list request, for
\* the prefix key/ with MaxKeys 300 and the token it was given.  Given no
\* token it returns key, key.props and then the keys of the store's page in
\* store order (the two synthetic keys alone when the page is empty); given a
\* token it returns the keys of the page alone.  The token it returns is the
\* store's NextContinuationToken, or none when the store gave none.
C20_ListPage ==
  /\ [](\A k \in DOMAIN listRequests :
          /\ listRequests[k].input.Bucket = "foo-content"
          /\ listRequests[k].input.Prefix = "mydir/"
          /\ listRequests[k].input.MaxKeys = 300
          /\ DOMAIN listRequests[k].input
               = {"Bucket", "Prefix", "MaxKeys", "ContinuationToken"})
  /\ [](\A i \in Calls :
          /\ pc[i] \in {"list", "drain"}
               => /\ ListRequestsOf(i) # {}
                  /\ LET last == CHOOSE k \in ListRequestsOf(i) :
                                   \A m \in ListRequestsOf(i) : m <= k IN
                     listRequests[last].input.ContinuationToken = listToken[i]
          /\ (operation = "delete" /\ Started(i) /\ daCtx[i].ext = "")
               => Cardinality(ListRequestsOf(i)) = 1)
  /\ [][\A i \in Calls :
          ListCommandReturns(i) =>
            LET page == PageOf(i)
                seed == IF listToken[i] = "" THEN <<"mydir", "mydir.props">> ELSE <<>>
                sent == Cardinality(ListRequestsOf(i)')
                         - Cardinality(ListRequestsOf(i)) IN
            IF operation = "delete"
            THEN /\ sourceKeys'[i] = seed \o page.keys
                 /\ continuationToken'[i] # "" <=> page.more
                 /\ page.more =>
                      continuationToken'[i]
                        = StoreList(ListInput(daCtx[i], listToken[i])).NextContinuationToken
                 /\ sent = 0
            ELSE /\ IF pc[i] = "list"
                    THEN sourceKeys'[i] = seed \o page.keys /\ listToken[i] = ""
                    ELSE /\ remainingKeys'[i] = remainingKeys[i] \o page.keys
                         /\ listToken[i] # ""
                 /\ pc'[i] = (IF page.more THEN "drain" ELSE "join")
                 /\ sent = IF page.more THEN 1 ELSE 0
                 /\ page.more =>
                      listToken'[i]
                        = StoreList(ListInput(daCtx[i], listToken[i])).NextContinuationToken]_vars

\* a directory has been deleted in two calls: the first listed the two
\* synthetic keys and a page of children and returned the store's token, the
\* second, given that token, listed children alone
C20_Witness ==
  \E i, k \in Calls :
    /\ operation = "delete" /\ i < k
    /\ daCtx[i].ext = "" /\ details[i].continuationToken = ""
    /\ Len(task[i]) >= 3 /\ task[i][1].key = "mydir" /\ task[i][2].key = "mydir.props"
    /\ result[i].status = 206
    /\ daCtx[k].ext = "" /\ details[k].continuationToken = continuationToken[i]
    /\ task[k] # <<>> /\ task[k][1].key = children[Len(task[i]) - 1]
    /\ result[k].status = 204

\* the token in the body invocation i returned with 206
TokenOf(i) == continuationToken[i]

\* a token of the form the store issues / copyObject generates
IsStoreCursor(token) == Len(token) > 5 /\ SubSeq(token, 1, 5) = "page-"
IsJobToken(token) == Len(token) > 5 /\ SubSeq(token, 1, 5) = "copy-"

\* the tokens the list requests of invocation i carried
ListTokensOf(i) ==
  {listRequests[k].input.ContinuationToken : k \in ListRequestsOf(i)}

\* C21 as stated: whichever coordinator returns 206, the token it returns
\* names a job the ledger holds and is no store cursor, and the token a call
\* is given is never sent to the store as a listing cursor.
C21_AsStated ==
  \A i \in Calls :
    /\ (Returned(i) /\ result[i].status = 206)
         => /\ result[i].body = <<JsonToken(TokenOf(i))>>
            /\ ~IsStoreCursor(TokenOf(i))
            /\ i = ncalls => TokenOf(i) \in DOMAIN DA_JOBS
    /\ (Started(i) /\ details[i].continuationToken # "")
         => details[i].continuationToken \notin ListTokensOf(i)

\* C21: copyObject returns with 206 the token copy-... of a job the ledger
\* holds, whose keys are the remainder it did not process, never a store
\* cursor, and sends no list request when it is given a token.  deleteObjects
\* makes no ledger call: the token it returns with 206 is the store's
\* NextContinuationToken for the page it listed, and the token it is given is
\* the ContinuationToken of its list request.
C21_CopyJobsDeleteCursors ==
  \A i \in Calls :
    IF operation = "delete"
    THEN /\ ledgerCalls = <<>> /\ DA_JOBS = <<>>
         /\ (Returned(i) /\ result[i].status = 206)
              => /\ result[i].body = <<JsonToken(TokenOf(i))>>
                 /\ IsStoreCursor(TokenOf(i)) /\ KnownCursor(TokenOf(i))
         /\ (Started(i) /\ daCtx[i].ext = "")
              => ListTokensOf(i) = {details[i].continuationToken}
    ELSE /\ (Returned(i) /\ result[i].status = 206)
              => /\ result[i].body = <<JsonToken(TokenOf(i))>>
                 /\ IsJobToken(TokenOf(i)) /\ ~IsStoreCursor(TokenOf(i))
                 /\ remainingKeys[i] # <<>>
                 /\ i = ncalls
                      => /\ TokenOf(i) \in DOMAIN DA_JOBS
                         /\ DA_JOBS[TokenOf(i)] = remainingKeys[i]
         /\ (Started(i) /\ details[i].continuationToken # "")
              => ListRequestsOf(i) = {}
         /\ \A t \in ListTokensOf(i) : t = "" \/ IsStoreCursor(t)

\* a deleteObjects call has returned 206 with the store's cursor, no ledger
\* call made, and the next call has sent that cursor to the store
C21_Witness ==
  \E i, k \in Calls :
    /\ operation = "delete" /\ i < k
    /\ Returned(i) /\ result[i].status = 206 /\ IsStoreCursor(TokenOf(i))
    /\ ledgerCalls = <<>>
    /\ Returned(k) /\ ListTokensOf(k) = {TokenOf(i)}

\* the deleteObject call j of invocation i returned the error it caught
ReturnedError(i, j) == task[i][j].pc = "settled" /\ task[i][j].out = "error"

\* the list request of invocation i failed, or named a cursor the store never
\* issued
ListingFailed(i) ==
  \/ [call |-> i, op |-> "outage", key |-> "list"] \in storeCalls
  \/ ~KnownCursor(details[i].continuationToken)

\* C22: a deleteObject call signs one URL and sends at most one DELETE request,
\* the DELETE after the signing; when the signing or the DELETE throws, the
\* call resolves with the error, the key is still in the bucket and nothing is
\* sent again.  No deleteObject call rejects, so deleteObjects returns 404 only
\* when its list request failed, and 204 or 206 otherwise, whatever number of
\* its keys failed to delete.
C22_DeleteOnceNeverThrows ==
  \A i \in Calls :
    operation = "delete" =>
      /\ \A j \in 1..Len(task[i]) :
           LET t == task[i][j] IN
           /\ Count(t.did, "getSignedUrl") = 1 /\ t.did[1] = "getSignedUrl"
           /\ Count(t.did, "fetch") <= 1
           /\ Count(t.did, "fetch") = 1 => t.did[2] = "fetch"
           /\ t.out # "throw"
           /\ ReturnedError(i, j) =>
                /\ t.val = "e"
                /\ Count(t.did, "deleteadmin") = 0
                /\ (t.key \in faulty /\ \E c \in DOMAIN children : children[c] = t.key)
                     => t.key \in DOMAIN objects
      /\ ~rejected[i]
      /\ Returned(i) =>
           IF daCtx[i].ext = "" /\ ListingFailed(i)
           THEN result[i] = NotFound /\ task[i] = <<>>
           ELSE /\ result[i].status \in {204, 206}
                /\ BatchSettled(i)

\* a deleteObjects call has returned 204 though the signing failed for one of
\* its keys and the DELETE request for another: both objects are still there
C22_Witness ==
  \E i \in Calls : \E j, k \in 1..Len(task[i]) :
    /\ operation = "delete" /\ Returned(i) /\ result[i].status = 204
    /\ ReturnedError(i, j) /\ task[i][j].did = <<"getSignedUrl">>
    /\ ReturnedError(i, k) /\ task[i][k].did = <<"getSignedUrl", "fetch">>
    /\ {task[i][j].key, task[i][k].key} \subseteq DOMAIN objects

\* ------------------------------------------------- properties of utils/auth.js

\* the calls the k-th parseUser call of request r made, by kind
AuthCallsOf(r, k) == {c.op : c \in {d \in authCalls : d.req = r /\ d.entry = k}}

\* the header entries of request r, as the header spells them
EntriesOf(r) ==
  CASE authHeader[r] = "Bearer tB" -> <<"tB">>
    [] authHeader[r] = ",Bearer tA" -> <<"", "tA">>
    [] authHeader[r] = "Bearer \t,Bearer tForged" -> <<"\t", "tForged">>
    [] authHeader[r] = "Bearer tA,Bearer tB" -> <<"tA", "tB">>
    [] authHeader[r] = "Bearer tA,Bearer tA" -> <<"tA", "tA">>
    [] OTHER -> <<>>

\* the second after which a signed token is no longer valid
ValidUntil(token) == IF token = "tA" THEN 30 ELSE 15

\* C23: a request without an authorization header is answered with the one
\* user anonymous and no parseUser call.  A parseUser call whose token is
\* empty or blank, or does not verify, or whose created_at + expires_in is
\* less than the time it compared with, returns anonymous (a blank token
\* without a verification) and has made no DA_AUTH call and no profile
\* request; no put has been made on its behalf, and the user it returns is
\* never the one cached under the id the token claims.
C23_UnverifiedIsAnonymous ==
  \A r \in 1..nreqs :
    IF authHeader[r] = ""
    THEN /\ users[r] = <<[email |-> "anonymous"]>>
         /\ parse[r] = <<>>
         /\ {c \in authCalls : c.req = r} = {}
    ELSE /\ Len(parse[r]) = Len(EntriesOf(r))
         /\ \A k \in DOMAIN parse[r] :
              LET e == parse[r][k]
                  blank == EntriesOf(r)[k] \in {"", "\t"}
                  signed == EntriesOf(r)[k] \in {"tA", "tB"}
                  expired == signed /\ e.pc # "verify" /\ ValidUntil(e.token) < e.at IN
              /\ e.token = EntriesOf(r)[k]
              /\ blank => e.pc = "done"
              /\ (signed /\ e.pc # "verify") => e.at \in Now0..seconds
              /\ (blank \/ ~signed \/ expired) =>
                   /\ e.pc \in {"verify", "done"}
                   /\ e.pc = "done" => e.out = <<[email |-> "anonymous"]>>
                   /\ e.user = ""
                   /\ AuthCallsOf(r, k) = {}
         /\ users[r] # <<>> =>
              /\ \A k \in DOMAIN parse[r] : parse[r][k].pc = "done"
              /\ users[r] = [k \in DOMAIN parse[r] |-> parse[r][k].out[1]]

\* user u1 is in the session cache, and a request with a blank token and a
\* token forged for u1 has been answered with two anonymous users; before it
\* an expired token was answered with anonymous
C23_Witness ==
  \E q, r \in 1..nreqs :
    /\ q < r
    /\ authHeader[q] = "Bearer tA,Bearer tB"
    /\ parse[q][2].at = 16
    /\ users[q] = <<[email |-> "aparker@geometrixx.info"], [email |-> "anonymous"]>>
    /\ "u1" \in DOMAIN DA_AUTH
    /\ authHeader[r] = "Bearer \t,Bearer tForged"
    /\ users[r] = <<[email |-> "anonymous"], [email |-> "anonymous"]>>

\* the JSON string the identity of a signed token is stored as
StoredFor(token) ==
  IF token = "tA" THEN "{\"email\":\"aparker@geometrixx.info\"}"
  ELSE "{\"email\":\"chad@geometrixx.info\"}"

\* a put for user id u has returned
PutDone(u) ==
  \E r \in 1..nreqs : \E k \in DOMAIN parse[r] :
    /\ parse[r][k].userId = u /\ parse[r][k].ok = <<TRUE>>
    /\ parse[r][k].pc = "done"

\* C24: a parseUser call whose profile request was not ok has made no put,
\* holds no user and returns anonymous; one whose request was ok has made one
\* put of the JSON string {"email": <email>}, returns the user parsed from that
\* same string, and that string is what the cache holds under the user id
\* while it holds anything.  The cache holds nothing but such strings, so
\* while no put for a user id has returned, every parseUser call for it whose
\* cache read has been answered has sent a profile request.
C24_FailedProfileNotCached ==
  /\ \A r \in 1..nreqs : \A k \in DOMAIN parse[r] :
       LET e == parse[r][k]
           calls == AuthCallsOf(r, k) IN
       /\ e.ok = <<FALSE>> =>
            /\ e.pc = "done" /\ e.out = <<[email |-> "anonymous"]>>
            /\ e.user = "" /\ "put" \notin calls
       /\ e.ok = <<TRUE>> =>
            /\ "put" \in calls /\ e.user = StoredFor(e.token)
            /\ e.pc \in {"put", "done"}
            /\ e.pc = "done" =>
                 /\ e.out = <<[email |-> SubSeq(e.user, 11, Len(e.user) - 2)]>>
                 /\ e.userId \in DOMAIN DA_AUTH => DA_AUTH[e.userId].value = e.user
       /\ "put" \in calls => e.ok = <<TRUE>>
       /\ e.ok # <<>> => "profile" \in calls
       /\ ("get" \in calls /\ e.pc # "get" /\ ~PutDone(e.userId))
            => "profile" \in calls
  /\ \A u \in DOMAIN DA_AUTH :
       /\ PutDone(u)
       /\ DA_AUTH[u].value = StoredFor(IF u = "u1" THEN "tA" ELSE "tB")

\* the profile request of a first request with token tA was not ok and the
\* request was answered anonymous; the next request with tA has sent a
\* profile request again, which was ok, and its user is cached and returned
C24_Witness ==
  \E q, r \in 1..nreqs :
    /\ q < r
    /\ authHeader[q] = ",Bearer tA" /\ authHeader[r] = ",Bearer tA"
    /\ parse[q][2].ok = <<FALSE>>
    /\ users[q] = <<[email |-> "anonymous"], [email |-> "anonymous"]>>
    /\ "profile" \in AuthCallsOf(r, 2) /\ parse[r][2].ok = <<TRUE>>
    /\ users[r] = <<[email |-> "anonymous"], [email |-> "aparker@geometrixx.info"]>>
    /\ DA_AUTH = [u1 |-> [value |-> "{\"email\":\"aparker@geometrixx.info\"}",
                          expiration |-> 0]]

\* the values of the rows of org's config that name an administrator: the
\* rows of the sheet, or of the sheet named data when there are several
AdminValues(org) ==
  LET p == DA_CONFIG[org]
      rows == IF p.type = "multi-sheet" THEN p.data.data ELSE p.data IN
  {rows[k].value : k \in {m \in DOMAIN rows : rows[m].key = "admin.role.all"}}

\* a and b are the same string but for the case of their letters
SameButCase(a, b) ==
  /\ Len(a) = Len(b)
  /\ \A i \in 1..Len(a) :
       \/ SubSeq(a, i, i) = SubSeq(b, i, i)
       \/ \E n \in 1..26 :
            {SubSeq(a, i, i), SubSeq(b, i, i)}
              = {SubSeq("ABCDEFGHIJKLMNOPQRSTUVWXYZ", n, n),
                 SubSeq("abcdefghijklmnopqrstuvwxyz", n, n)}

\* C25: isAuthorized returns true when no org is given and when DA_CONFIG has
\* no entry for the org; when the org's config (its data sheet, for a
\* multi-sheet config) has a row with key admin.role.all, it returns true
\* exactly when the user's email is the value of one of those rows up to the
\* case of letters.
C25_AdminsOnly ==
  \A n \in DOMAIN authorized :
    LET c == authorized[n] IN
    /\ c.org = "" => c.result
    /\ (c.org # "" /\ c.org \notin DOMAIN DA_CONFIG) => c.result
    /\ (c.org \in DOMAIN DA_CONFIG /\ AdminValues(c.org) # {})
         => (c.result <=> \E a \in AdminValues(c.org) : SameButCase(a, c.email))

\* under a multi-sheet config whose administrator is spelled aPaRKer@..., the
\* user ApaRkeR@... has been found authorized and chad@... not
C25_Witness ==
  \E m, n \in DOMAIN authorized :
    /\ DA_CONFIG["geometrixx"].type = "multi-sheet"
    /\ authorized[m] = [org |-> "geometrixx", email |-> "ApaRkeR@geometrixx.info",
                        result |-> TRUE]
    /\ authorized[n] = [org |-> "geometrixx", email |-> "chad@geometrixx.info",
                        result |-> FALSE]

\* C26: isAuthorized returns true for every user when the org's config has
\* rows (or a data sheet) with no admin.role.all key.
C26_NoProtectionsAuthorizes ==
  \A n \in DOMAIN authorized :
    LET c == authorized[n] IN
    (c.org \in DOMAIN DA_CONFIG /\ AdminValues(c.org) = {}) => c.result

\* C27: a copyFile call that has sent its notification has no write to the
\* destination key still in flight: the conditional copy, the second copy of
\* a rename or the versioned put it started has completed.
C27_NotifyAfterWrite ==
  \A i \in Calls : \A j \in 1..Len(task[i]) :
    (operation # "delete" /\ Count(task[i][j].did, "syncAdmin") = 1)
      => ~Writing(task[i][j])

\* invocation i is a call on a directory key that resumes nothing
ListsDirectory(i) ==
  /\ pc[i] # "idle"
  /\ daCtx[i].ext = None
  /\ details[i].continuationToken = None

\* a step leaves the sibling directory's object in the bucket as it is
SiblingKept ==
  SiblingKey \in DOMAIN objects
    => (SiblingKey \in DOMAIN objects' /\ objects'[SiblingKey] = objects[SiblingKey])

\* C28: in a copyObject or deleteObjects call on a directory key K that resumes
\* nothing, every list request has the prefix K + "/" and every key handed to
\* copyFile or deleteObject is K, K + ".props" or a key the store lists under
\* K + "/".  No step removes or rewrites the object of a sibling directory
\* whose name starts with K, and nothing is ever written to the key its copy
\* would have.
C28_SiblingsUntouched ==
  /\ [](\A i \in Calls :
          ListsDirectory(i) =>
            /\ \A k \in ListRequestsOf(i) :
                 listRequests[k].input.Prefix = daCtx[i].key \o "/"
            /\ \A j \in 1..Len(task[i]) :
                 \/ task[i][j].key \in {daCtx[i].key, daCtx[i].key \o ".props"}
                 \/ /\ StartsWith(task[i][j].key, daCtx[i].key \o "/")
                    /\ \E c \in 1..Len(Listable) : Listable[c] = task[i][j].key)
  /\ [](DestKey(SiblingKey, DirDetails(None)) \notin DOMAIN objects)
  /\ [][SiblingKept]_vars

\* a directory that has a sibling was deleted with all its children, and the
\* sibling's object is in the bucket as it was
C28_Witness ==
  /\ operation = "delete"
  /\ SiblingKey \in DOMAIN objects
  /\ objects[SiblingKey] = OriginalObject(SiblingKey)
  /\ \E i \in Calls :
       /\ ListsDirectory(i)
       /\ pc[i] = "returned"
       /\ result[i].status = 204
       /\ Len(task[i]) >= 3
       /\ \A j \in 1..Len(task[i]) : task[i][j].key \notin DOMAIN objects

\* what follows details.source in the k-th key of the batch
RestOf(k) == SubSeq(sourceKeys[1][k], Len(details[1].source) + 1, Len(sourceKeys[1][k]))

\* C29: every source key handed to copyFile starts with details.source; the
\* destination key of the input built for it is details.destination followed
\* by what follows the source in the key, its CopySource is
\* <org>-content/<source key> and its Bucket <org>-content; when source and
\* destination differ, the destination key is not the source key.
C29_DestinationKey ==
  \A k \in 1..Len(built) :
    /\ StartsWith(sourceKeys[1][k], details[1].source)
    /\ built[k].Key = details[1].destination \o RestOf(k)
    /\ built[k].CopySource = daCtx[1].org \o "-content/" \o sourceKeys[1][k]
    /\ built[k].Bucket = daCtx[1].org \o "-content"
    /\ details[1].source # details[1].destination
         => built[k].Key # sourceKeys[1][k]

\* invocation i waits for the ledger's answer about a token the ledger does
\* not hold
UnknownJob(i) ==
  /\ operation # "delete"
  /\ pc[i] = "jobsGet"
  /\ continuationToken[i] \notin DOMAIN DA_JOBS

\* invocation i made one call of the ledger, the get of its token, and reached
\* neither the store nor the cache invalidator
OnlyAsked(i) ==
  /\ task[i] = <<>>
  /\ ListRequestsOf(i) = {}
  /\ \A k \in LedgerCallsOf(i) :
       ledgerCalls[k].op = "get" /\ ledgerCalls[k].key = details[i].continuationToken
  /\ Cardinality(LedgerCallsOf(i)) = 1
  /\ \A c \in resent \cup overwrites : c.call # i
  /\ \A c \in storeCalls : c.call = i => c.op = "outage"
  /\ NotificationsOf(i) = 0

\* the step in which the ledger answers invocation i, which asked for a token
\* the ledger does not hold
UnknownJobAnswered(i) ==
  (UnknownJob(i) /\ pc'[i] # "jobsGet")
    => /\ pc'[i] = "returned"
       /\ result'[i] = [status |-> 404, body |-> <<"">>]
       /\ task'[i] = <<>>
       /\ DA_JOBS' = DA_JOBS
       /\ ledgerCalls' = ledgerCalls
       /\ objects' = objects
       /\ collab' = collab

\* C30: a copyObject call given a continuation token that names no job of the
\* ledger, one never created or one deleted when its job was completed, returns
\* status 404 with the empty string as body; it starts no copyFile call, sends
\* no notification, and the ledger is as it was before the call.
C30_UnknownTokenNotFound ==
  /\ [](\A i \in Calls :
          /\ UnknownJob(i) => OnlyAsked(i)
          /\ (Resumes(i, details[i].continuationToken) /\ Returned(i)
              /\ task[i] = <<>>)
               => /\ result[i] = [status |-> 404, body |-> <<"">>]
                  /\ OnlyAsked(i))
  /\ [][\A i \in Calls : UnknownJobAnswered(i)]_vars

\* a job was listed, resumed and completed, its token deleted from the ledger;
\* a further call with the token was answered 404 with no outage in its way
C30_Witness ==
  \E k, j, i \in Calls :
    /\ k < j /\ j < i
    /\ result[k].status = 206
    /\ details[j].continuationToken = continuationToken[k]
    /\ result[j].status = 204
    /\ \E c \in LedgerCallsOf(j) :
         ledgerCalls[c].op = "delete" /\ ledgerCalls[c].key = continuationToken[k]
    /\ details[i].continuationToken = continuationToken[k]
    /\ continuationToken[k] \notin DOMAIN DA_JOBS
    /\ Returned(i)
    /\ result[i] = [status |-> 404, body |-> <<"">>]
    /\ OnlyAsked(i)
    /\ ~Outage(i)
    /\ DA_JOBS = <<>>

\* invocation i of copyObject drew a job token of its own
Generated(i) ==
  /\ operation # "delete"
  /\ Started(i)
  /\ details[i].continuationToken = None
  /\ continuationToken[i] # None

\* a list request of invocation i for a later page failed
DrainFailed(i) == [call |-> i, op |-> "outage", key |-> "drain"] \in storeCalls

\* C31 as stated: every call that drew a job token ends with a non-empty
\* remainder
C31_AsStated ==
  \A i \in Calls : (Generated(i) /\ Returned(i)) => remainingKeys[i] # <<>>

\* C31: copyObject calls the ledger's delete only for the token its caller
\* gave it, after a batch that took all the keys the ledger held for the token
\* and whose copyFile calls all resolved; a call given no token never calls the
\* ledger's delete.  A job token is drawn only after a first page that carried
\* a cursor, and the call that drew it ends with a non-empty remainder unless a
\* list request for a later page failed: that call returns 404 and has written
\* nothing to the ledger.
C31_DeleteOnlyConsumedJobs ==
  \A i \in Calls :
    operation # "delete" =>
      /\ \A k \in LedgerCallsOf(i) :
           ledgerCalls[k].op = "delete"
             => /\ details[i].continuationToken # None
                /\ ledgerCalls[k].key = details[i].continuationToken
                /\ remainingKeys[i] = <<>>
                /\ sourceKeys[i] # <<>>
                /\ Len(task[i]) = Len(sourceKeys[i])
                /\ nsettled[i] = Len(task[i])
                /\ ~rejected[i]
      /\ Generated(i)
           => /\ Cardinality(ListRequestsOf(i)) >= 2
              /\ Returned(i)
                   => \/ remainingKeys[i] # <<>>
                      \/ /\ DrainFailed(i)
                         /\ result[i] = [status |-> 404, body |-> <<"">>]
                         /\ \A k \in LedgerCallsOf(i) : FALSE

\* a listing call drew a token and returned 206 with its remainder stored; a
\* later call given that token took the rest, deleted the job and returned 204
C31_Witness ==
  \E i, j \in Calls :
    /\ Generated(i) /\ Returned(i)
    /\ result[i].status = 206
    /\ remainingKeys[i] # <<>>
    /\ details[j].continuationToken = continuationToken[i]
    /\ Returned(j) /\ result[j].status = 204
    /\ \E k \in LedgerCallsOf(j) : ledgerCalls[k].op = "delete"
    /\ continuationToken[i] \notin DOMAIN DA_JOBS

\* the calls 1..n are a chain of deleteObjects calls on the directory: the
\* first is given no token, each later one the token its predecessor returned
\* with 206
DeleteChain(n) ==
  /\ operation = "delete"
  /\ \A k \in 1..n :
       /\ Started(k)
       /\ daCtx[k].ext = None
       /\ k = 1 => details[k].continuationToken = None
       /\ k > 1 => /\ result[k - 1].status = 206
                   /\ continuationToken[k - 1] # None
                   /\ details[k].continuationToken = continuationToken[k - 1]

\* the keys the calls 1..n handed to deleteObject, in order
RECURSIVE SubmittedUpTo(_)
SubmittedUpTo(n) ==
  IF n = 0 THEN <<>>
  ELSE SubmittedUpTo(n - 1) \o [j \in 1..Len(task[n]) |-> task[n][j].key]

\* no key occurs twice in keys
NoRepeat(keys) ==
  \A a, b \in 1..Len(keys) : keys[a] = keys[b] => a = b

\* C32: in a chain of deleteObjects calls on a directory, the directory key and
\* its .props sidecar are handed to deleteObject by the first call, first and
\* once, and by no later call; no key is handed over twice, in one call or in
\* two; no call hands over more keys than one page of the store, and the first
\* the two synthetic keys besides; and when the chain has ended with 204, every
\* key the store lists under the prefix has been handed over.
C32_DeleteChainOnce ==
  \A n \in Calls :
    DeleteChain(n) =>
      LET keys == SubmittedUpTo(n) IN
      /\ NoRepeat(keys)
      /\ \A k \in 1..n :
           /\ Len(task[k]) <= PageSize + (IF k = 1 THEN 2 ELSE 0)
           /\ Len(task[k]) <= MaxKeys + 2
           /\ (k = 1 /\ task[k] # <<>>)
                => task[k][1].key = DirKey /\ task[k][2].key = PropsKey
           /\ k > 1 => \A j \in 1..Len(task[k]) :
                         task[k][j].key \notin {DirKey, PropsKey}
           /\ \A j \in 1..Len(task[k]) :
                \/ task[k][j].key \in {DirKey, PropsKey}
                \/ \E c \in 1..Len(children) : children[c] = task[k][j].key
      /\ (Returned(n) /\ result[n].status = 204)
           => {keys[a] : a \in 1..Len(keys)} = AllKeys

\* a chain of two calls or more has ended with 204, a deletion having failed
\* on the way
C32_Witness ==
  \E n \in Calls :
    /\ n >= 2
    /\ DeleteChain(n)
    /\ Returned(n) /\ result[n].status = 204
    /\ Len(SubmittedUpTo(n)) = Cardinality(AllKeys)
    /\ \E j \in 1..Len(task[1]) : ReturnedError(1, j)

\* ------------------------------------------ resumed calls that run together

\* a request with a token an earlier response carried reaches copyObject while
\* one earlier invocation is still running: the worker serves requests as they
\* arrive, and copyObject (copy.js 100-113) takes no lock on the job.  No more
\* than two invocations run at a time.
Resume(i) ==
  /\ operation # "delete"
  /\ i = ncalls + 1
  /\ i <= MaxCalls
  /\ Cardinality({k \in 1..ncalls : pc[k] # "returned"}) = 1
  /\ \E token \in ReturnedTokens :
       /\ daCtx' = [daCtx EXCEPT ![i] = DirCtx]
       /\ details' = [details EXCEPT ![i] = DirDetails(token)]
       /\ copyObject(i, DirCtx, DirDetails(token))
  /\ ncalls' = i
  /\ clock' = clock + 1
  /\ UNCHANGED <<storeVars, DA_JOBS, operation, probes, listed, resent, collab,
                 storeCalls, overwrites>>
  /\ UNCHANGED <<authVars, built>>

\* a large directory is copied, nothing fails
RaceInit ==
  /\ Init
  /\ operation = "copy"
  /\ Len(children) > MaxKeys

RaceNext ==
  \E i \in Calls :
    \/ Call(i)
    \/ Resume(i)
    \/ ListReturns(i)
    \/ DrainReturns(i)
    \/ JobsGetReturns(i)
    \/ Join(i)
    \/ JobsPutReturns(i)
    \/ JobsDeleteReturns(i)
    \/ BatchSettles(i)
    \/ \E j \in Turn(i) :
         \/ CopyReturns(i, j)
         \/ GetReturns(i, j)
         \/ WriteReturns(i, j)
         \/ InvalidateReturns(i, j)

RaceSpec == RaceInit /\ [][RaceNext]_vars

\* invocation i of copyObject lists the directory from its start
ListsDirectoryAnew(i) ==
  /\ operation # "delete"
  /\ Started(i)
  /\ IsListing([ctx |-> daCtx[i], det |-> details[i]])

\* invocation i has sent none of its per-key requests
NothingIssued(i) ==
  /\ task[i] = <<>>
  /\ \A c \in storeCalls : c.call = i => c.op = "outage"

\* the keys invocation i has listed so far
ListedKeys(i) == sourceKeys[i] \o remainingKeys[i]

\* C33: in a copyObject call without a continuation token every list request,
\* for the first page and for the drained ones, is answered before the first
\* copyFile call is made; the keys the call copies and the keys it leaves as
\* remainder are, in order, the keys the bucket held under the prefix before
\* the call wrote anything, so that no object the call itself creates under
\* the prefix is among its sources.
C33_ListedBeforeCopied ==
  \A i \in Calls :
    ListsDirectoryAnew(i) =>
      LET keys == ListedKeys(i) IN
      /\ pc[i] \in {"list", "drain"} => NothingIssued(i)
      /\ Len(keys) <= Len(children) + 2
      /\ \A k \in 1..Len(keys) :
           keys[k] = (IF k = 1 THEN DirKey
                      ELSE IF k = 2 THEN PropsKey ELSE children[k - 2])
      /\ task[i] # <<>>
           => /\ Len(keys) = Len(children) + 2
              /\ Len(task[i]) = Len(sourceKeys[i])
              /\ \A j \in 1..Len(task[i]) : task[i][j].key = sourceKeys[i][j]

\* a call that drained a later page has returned, and the bucket holds under
\* the prefix an object the call created and did not list
C33_Witness ==
  \E i \in Calls :
    /\ ListsDirectoryAnew(i)
    /\ Returned(i)
    /\ remainingKeys[i] # <<>>
    /\ \E key \in DOMAIN objects :
         /\ StartsWith(key, DirKey \o "/")
         /\ \E k \in 1..Len(Listable) : Listable[k] = key
         /\ key \notin {DirKey, PropsKey}
         /\ \A k \in 1..Len(children) : children[k] # key

\* invocation i of copyObject has returned 404 and no later invocation has begun
FailedLast(i) ==
  /\ operation # "delete"
  /\ i = ncalls
  /\ Returned(i)
  /\ result[i] = NotFound

\* invocation i has issued a ledger put or delete
WroteLedger(i) ==
  \E k \in LedgerCallsOf(i) : ledgerCalls[k].op \in {"put", "delete"}

\* the ledger changes only in the step in which a put or a delete of some
\* invocation completes, and that invocation returns 206 or 204 in that step
LedgerStep ==
  DA_JOBS' # DA_JOBS
    => \E i \in Calls :
         /\ pc[i] \in {"jobsPut", "jobsDelete"}
         /\ pc'[i] = "returned"
         /\ result'[i].status = (IF pc[i] = "jobsPut" THEN 206 ELSE 204)
         /\ \A k \in Calls \ {i} : Started(k) => Returned(k)

\* C34: a copyObject call that returns 404 has left the ledger as it found it.
\* The ledger changes only when a put or delete completes, in the step in which
\* its invocation returns 206 or 204, and a put or delete is issued only when
\* every copyFile call of the batch has settled without throwing; a resumed
\* call that failed after reading its job leaves under the token the batch it
\* attempted followed by the rest; the token a failed call without a
\* continuation token drew is not in the ledger; and no token of the ledger
\* holds an empty sequence.
C34_FailureKeepsLedger ==
  /\ [](\A t \in DOMAIN DA_JOBS : DA_JOBS[t] # <<>>)
  /\ [](\A i \in Calls :
          WroteLedger(i)
            => \A j \in 1..Len(task[i]) :
                 task[i][j].pc = "settled" /\ task[i][j].out = "ok")
  /\ [](\A i \in Calls :
          FailedLast(i) =>
            IF details[i].continuationToken = None
            THEN continuationToken[i] \notin DOMAIN DA_JOBS
            ELSE task[i] # <<>>
                   => /\ details[i].continuationToken \in DOMAIN DA_JOBS
                      /\ DA_JOBS[details[i].continuationToken]
                           = sourceKeys[i] \o remainingKeys[i])
  /\ [][LedgerStep]_vars

\* a resumed call has returned 404 because a copyFile call of its batch threw,
\* and the ledger holds its job
C34_Witness ==
  \E i \in Calls :
    /\ FailedLast(i)
    /\ details[i].continuationToken \in DOMAIN DA_JOBS
    /\ \E j \in 1..Len(task[i]) : Threw(i, j)

\* a call has returned 404 because its ledger put failed
PutFailed ==
  \E i \in Calls :
    /\ FailedLast(i)
    /\ [call |-> i, op |-> "outage", key |-> "jobsPut"] \in storeCalls

\* invocation i resumed the job the first invocation left and read from the
\* ledger the remainder as the first invocation stored it
ReadOriginal(i) ==
  /\ i > 1
  /\ Started(i)
  /\ details[i].continuationToken = continuationToken[1]
  /\ task[i] # <<>>
  /\ sourceKeys[i] = Spliced(remainingKeys[1], MAX_KEYS)
  /\ remainingKeys[i] = Rest(remainingKeys[1], MAX_KEYS)

\* two invocations both read the job before either wrote it
Overlapped == \E a, b \in Calls : a # b /\ ReadOriginal(a) /\ ReadOriginal(b)

\* a resumed invocation has deleted the first invocation's token
TokenDeleted ==
  \E i \in Calls :
    /\ i > 1
    /\ details[i].continuationToken = continuationToken[1]
    /\ Returned(i)
    /\ result[i] = Complete

\* every key of the remainder the first invocation stored has been handed to
\* copyFile by a resumed invocation
AllPassed ==
  {remainingKeys[1][k] : k \in 1..Len(remainingKeys[1])}
    \subseteq UNION {{task[i][j].key : j \in 1..Len(task[i])} : i \in Calls \ {1}}

\* C35: when two resumed calls have both read the job before either wrote it
\* and no copyFile call fails, then once the token has been deleted every key
\* of the original remainder has been handed to copyFile, and the ledger does
\* not hold the token again.
C35_OverlapIsBenign ==
  (Overlapped /\ TokenDeleted)
    => /\ AllPassed
       /\ continuationToken[1] \notin DOMAIN DA_JOBS

\* no key of the job is dropped: the half of the statement the code keeps
NoKeyDropped == TokenDeleted => AllPassed

====
